---- MODULE Spec2Model ----
(***************************************************************************)
(* State-machine model of the ai-video-agent pipeline:                     *)
(*   - Sora2Client (src/src/integrations/sora2_client.py): submission,     *)
(*     status mapping, wait_for_completion polling loop;                   *)
(*   - VideoAgent.generate_scene_videos (src/src/agents/video_agent.py):   *)
(*     the sequential continue-on-error loop over the scene prompts;       *)
(*   - VisualAgent.generate_scene_images (src/src/agents/visual_agent.py); *)
(*   - VideoService.generate_video / generate_video_sora2 /                *)
(*     generate_video_stream (src/src/services/video_service.py).          *)
(*                                                                         *)
(* Money is counted in thousandths of a dollar (0.15 USD = 150), so that   *)
(* the 1.5 multiplier stays an integer (225).  Every sum the code makes    *)
(* is made here in the same order.                                         *)
(* Time is counted in seconds; the wait loop counts only its own sleeps    *)
(* (elapsed), exactly as the code does.                                    *)
(***************************************************************************)
EXTENDS Integers, Sequences, FiniteSets, TLC

VARIABLES
    mode,               \* which entry point this behaviour exercises
    script_segments,    \* argument script_segments of generate_scene_videos (<<>>: not given)
    \* ---- provider side and Sora2Client.wait_for_completion ----
    job,                \* provider-side truth about the task being waited on
    wpc,                \* position inside wait_for_completion
    elapsed,            \* local of wait_for_completion
    max_wait_seconds,   \* argument of wait_for_completion
    poll_interval,      \* argument of wait_for_completion
    status,             \* last dict returned by get_task_status
    polls,              \* number of get_task_status calls of this wait
    wres,               \* how wait_for_completion ended
    \* ---- the test script (test_sora2.py) ----
    tpc,                \* position in the submit / wait / download script
    \* ---- VideoAgent.generate_scene_videos ----
    bpc,                \* position inside the batch call
    num_scenes,         \* argument num_scenes
    duration,           \* argument duration ("10" | "15")
    candidates,         \* history: the description list before padding and cutting
    scene_descriptions, \* local list (description k is written k)
    video_prompts,      \* local list returned by the enhancement step
    i,                  \* loop index (0-based)
    result,             \* dict returned by sora_client.generate_video
    video_paths,        \* local list of saved clip paths (clip numbers)
    batch_cost,         \* local total_cost of the agent
    failed_scenes,      \* local list of {scene_number, prompt, error}
    tasks,              \* history: one entry per scene the loop has attempted
    bres,               \* how the batch call ended
    \* ---- VisualAgent.generate_scene_images ----
    image_results,      \* list returned by generate_images_batch
    image_paths,        \* local list of saved image paths
    \* ---- VideoService (orchestrator) ----
    pc,                 \* position inside the orchestrator
    video,              \* the ORM object (in memory)
    db,                 \* the committed rows: <<>> before the first commit, then <<row>>
    total_cost,         \* local running total
    costs,              \* locals script_cost, voice_cost, visual/video_cost, assembly_cost
    calls,              \* history: stage calls made, in order
    exc,                \* exception being handled / raised
    ret,                \* dict returned to the caller
    events,             \* progress events yielded (generate_video_stream)
    gsub,               \* generate_video_batch: the submission of each prompt
    gjobs,              \* provider jobs created by generate_video_batch, in order of creation
    gres                \* how generate_video_batch ended

waitVars   == <<job, wpc, elapsed, max_wait_seconds, poll_interval, status, polls, wres>>
batchVars  == <<bpc, num_scenes, duration, candidates, scene_descriptions, video_prompts, i,
                result, video_paths, batch_cost, failed_scenes, tasks, bres>>
visualVars == <<image_results, image_paths>>
runVars    == <<pc, video, db, total_cost, costs, calls, exc, ret, events>>
gatherVars == <<gsub, gjobs, gres>>
vars       == <<mode, script_segments, waitVars, tpc, batchVars, visualVars, runVars, gatherVars>>

----------------------------------------------------------------------------
(* Bounds of the model *)

MaxWaitSeconds  == 4    \* max_wait_seconds drawn for a direct client call: 0..MaxWaitSeconds
MaxPollInterval == 2    \* poll_interval drawn for a direct client call: 1..MaxPollInterval
MaxScenes       == 2    \* num_scenes drawn from 1..MaxScenes
MaxDescriptions == 3    \* the description model returns 0..MaxDescriptions items
MaxPolls        == 20   \* status queries of one wait the model follows
MaxSegments     == 2    \* a direct batch call is given 0..MaxSegments script segments
MaxRunScenes    == 1    \* scenes of a run whose termination is checked

(* Program constants *)

BatchMaxWait      == 300   \* video_agent.py:127
BatchPollInterval == 15    \* video_agent.py:128
CostPer10s        == 150   \* sora2_client.py:79  (0.15 USD)
ImageCost         == 40    \* openai_client.py:191 (0.04 USD)
AssemblyCost      == 0     \* assembly_agent.py:80 (FFmpeg is free)

Durations   == {"10", "15"}
ScriptCosts == {5, 12}     \* cost the script stage reports (from token usage)
VoiceCosts  == {3}         \* cost the narration stage reports (from character count)

NoExc  == [kind |-> "none", text |-> "none"]
NoRes  == [kind |-> "none"]

----------------------------------------------------------------------------
(* Sora2Client: pure parts *)

\* generate_video lines 78-81: cost of one submitted job.
SubmitCost_Flat(d) == CostPer10s
SubmitCost(d) == IF d = "15" THEN (CostPer10s * 3) \div 2 ELSE CostPer10s

\* calculate_cost lines 287-289.
calculate_cost(d, n) == (IF d = "15" THEN (CostPer10s * 3) \div 2 ELSE CostPer10s) * n

\* What the provider can answer to one recordInfo query, given the truth about
\* the job.  code = 200 with data = "null" is the "no record yet" answer.
\* state = "missing" is a data record without a "state" key.
Resp(code, data, state, urls, failMsg) ==
    [code |-> code, data |-> data, state |-> state, urls |-> urls, failMsg |-> failMsg]

Responses(j) ==
    {Resp(500, "null", "missing", 0, "missing")} \cup
    CASE j.state = "pending" ->
            {Resp(200, "null", "missing", 0, "missing")} \cup
            {Resp(200, "rec", s, 0, "missing") :
                s \in {"waiting", "queuing", "generating", "paused", "missing"}}
      [] j.state = "success" ->
            {Resp(200, "rec", "success", u, "missing") : u \in {0, 1}}
      [] j.state = "fail" ->
            {Resp(200, "rec", "fail", 0, m) : m \in {"missing", "content policy"}}
      [] OTHER -> {}

\* get_task_status lines 119-176.  The result is either [raised |-> TRUE] or the
\* dict the method returns (state, status, and video_url / error_message when
\* set; "absent" stands for a key the dict does not have).
StatusOf_UnknownIsSuccess(state) ==
    IF state \in {"waiting", "queuing", "generating"} THEN "processing"
    ELSE IF state = "fail" THEN "fail"
    ELSE "success"
StatusOf(state) ==
    IF state = "success" THEN "success"
    ELSE IF state \in {"waiting", "queuing", "generating"} THEN "processing"
    ELSE IF state = "fail" THEN "fail"
    ELSE "unknown"

get_task_status(r) ==
    IF r.code # 200
    THEN [raised |-> TRUE, state |-> "absent", status |-> "none",
          video_url |-> "absent", error_message |-> "absent"]
    ELSE IF r.data = "null"
    THEN [raised |-> FALSE, state |-> "absent", status |-> "processing",
          video_url |-> "absent", error_message |-> "absent"]
    ELSE LET state == IF r.state = "missing" THEN "unknown" ELSE r.state
             st    == StatusOf(state)
         IN [raised        |-> FALSE,
             state         |-> state,
             status        |-> st,
             video_url     |-> IF st = "success" /\ r.urls > 0 THEN "url" ELSE "absent",
             error_message |-> IF st = "fail"
                               THEN (IF r.failMsg = "missing" THEN "Generation failed" ELSE r.failMsg)
                               ELSE "absent"]

NoStatus == [raised |-> FALSE, state |-> "absent", status |-> "none",
             video_url |-> "absent", error_message |-> "absent"]
NoJob    == [state |-> "none", doneAt |-> -1]

----------------------------------------------------------------------------
(* Sora2Client.wait_for_completion, lines 198-216 *)

\* The call itself: elapsed = 0 (line 198).
WaitStart(mw, pi) ==
    /\ wpc' = "loop"
    /\ elapsed' = 0
    /\ max_wait_seconds' = mw
    /\ poll_interval' = pi
    /\ status' = NoStatus
    /\ polls' = 0
    /\ wres' = NoRes

\* Loop test of line 200.
LoopGuard_Inclusive(e, mw) == e <= mw
LoopGuard_OneMore(e, mw) == e < mw + 1
LoopGuard(e, mw) == e < mw

\* What one poll leads to (lines 203-211): return, raise, or sleep.
PollOutcome_PollErrorIsRetry(st) ==
    IF st.raised THEN "sleep"
    ELSE IF st.status = "success" THEN "return"
    ELSE IF st.status = "fail" THEN "raise_fail"
    ELSE "sleep"
PollOutcome_UnknownIsFail(st) ==
    IF st.raised THEN "raise_poll"
    ELSE IF st.status = "success" THEN "return"
    ELSE IF st.status \in {"fail", "unknown"} THEN "raise_fail"
    ELSE "sleep"
PollOutcome_FailIsRetry(st) ==
    IF st.raised THEN "raise_poll"
    ELSE IF st.status = "success" THEN "return"
    ELSE "sleep"
PollOutcome(st) ==
    IF st.raised THEN "raise_poll"
    ELSE IF st.status = "success" THEN "return"
    ELSE IF st.status = "fail" THEN "raise_fail"
    ELSE "sleep"

\* Lines 200-208: the loop test passes, one status query is made and examined.
WaitPoll ==
    /\ wpc = "loop"
    /\ LoopGuard(elapsed, max_wait_seconds)
    /\ polls < MaxPolls
    /\ \E r \in Responses(job) :
        LET st == get_task_status(r)
            o  == PollOutcome(st)
        IN /\ status' = st
           /\ polls' = polls + 1
           /\ CASE o = "return"     -> /\ wpc' = "done"
                                       /\ wres' = [kind |-> "return"]
                [] o = "raise_fail" -> /\ wpc' = "done"
                                       /\ wres' = [kind |-> "fail", text |-> st.error_message]
                [] o = "raise_poll" -> /\ wpc' = "done"
                                       /\ wres' = [kind |-> "poll_error"]
                [] OTHER            -> /\ wpc' = "sleep"
                                       /\ wres' = wres
    /\ UNCHANGED <<job, elapsed, max_wait_seconds, poll_interval>>
    /\ UNCHANGED <<gatherVars, mode, script_segments, tpc, batchVars, visualVars, runVars>>

\* Lines 211-212: the sleep ends and elapsed advances by poll_interval.
WaitSleep_NoAdvance ==
    /\ wpc = "sleep"
    /\ elapsed' = elapsed
    /\ wpc' = "loop"
    /\ UNCHANGED <<job, max_wait_seconds, poll_interval, status, polls, wres>>
    /\ UNCHANGED <<gatherVars, mode, script_segments, tpc, batchVars, visualVars, runVars>>
WaitSleep_RevisesCost ==
    /\ wpc = "sleep"
    /\ elapsed' = elapsed + poll_interval
    /\ wpc' = "loop"
    /\ result' = [result EXCEPT !.cost_usd = 0]
    /\ UNCHANGED <<job, max_wait_seconds, poll_interval, status, polls, wres>>
    /\ UNCHANGED <<bpc, num_scenes, duration, candidates, scene_descriptions, video_prompts, i,
                   video_paths, batch_cost, failed_scenes, tasks, bres>>
    /\ UNCHANGED <<gatherVars, mode, script_segments, tpc, visualVars, runVars>>
WaitSleep ==
    /\ wpc = "sleep"
    /\ elapsed' = elapsed + poll_interval
    /\ wpc' = "loop"
    /\ UNCHANGED <<job, max_wait_seconds, poll_interval, status, polls, wres>>
    /\ UNCHANGED <<gatherVars, mode, script_segments, tpc, batchVars, visualVars, runVars>>

\* Line 216: the loop test fails.
WaitTimeout ==
    /\ wpc = "loop"
    /\ ~LoopGuard(elapsed, max_wait_seconds)
    /\ wpc' = "done"
    /\ wres' = [kind |-> "timeout"]
    /\ UNCHANGED <<job, elapsed, max_wait_seconds, poll_interval, status, polls>>
    /\ UNCHANGED <<gatherVars, mode, script_segments, tpc, batchVars, visualVars, runVars>>

\* The provider finishes the job, at any moment after its submission.  While the
\* wait is running the moment is stamped with the seconds the wait has slept so
\* far (a job that finishes during a sleep finishes right after the sleep began).
ProviderStep ==
    /\ job.state = "pending"
    /\ wpc \in {"loop", "sleep"}
    /\ \E s \in {"success", "fail"} : job' = [state |-> s, doneAt |-> elapsed]
    /\ UNCHANGED <<wpc, elapsed, max_wait_seconds, poll_interval, status, polls, wres>>
    /\ UNCHANGED <<gatherVars, mode, script_segments, tpc, batchVars, visualVars, runVars>>

----------------------------------------------------------------------------
(* The direct use of the client: test_sora2.py lines 19-47 *)

\* generate_video (lines 19-24), then the call of wait_for_completion (35-39).
TestSubmit ==
    /\ mode = "client"
    /\ tpc = "submit"
    /\ \/ /\ job' = [state |-> "pending", doneAt |-> -1]
          /\ result' = [cost_usd |-> SubmitCost(duration), status |-> "processing"]
          /\ tpc' = "wait"
          /\ WaitStart(max_wait_seconds, poll_interval)
       \/ /\ tpc' = "failed"
          /\ UNCHANGED <<waitVars, result>>
    /\ UNCHANGED <<gatherVars, mode, script_segments, bpc, num_scenes, duration, candidates, scene_descriptions, video_prompts, i,
                   video_paths, batch_cost, failed_scenes, tasks, bres>>
    /\ UNCHANGED <<visualVars, runVars>>

\* The keys of the dict get_task_status returns (sora2_client.py lines 133-170).
ResultKeys(st) ==
    IF st.state = "absent" THEN {"task_id", "status"}
    ELSE {"task_id", "state", "model", "create_time", "update_time", "status"}
         \cup (IF st.status = "success" THEN {"complete_time"} ELSE {})
         \cup (IF st.video_url # "absent" THEN {"video_url"} ELSE {})
         \cup (IF st.status = "fail" THEN {"error_code", "error_message"} ELSE {})

\* Lines 41-43: the wait is over; on a normal return the script prints
\* completed['video_url'] and completed['cost_time'], and a key the dict does
\* not have raises KeyError.  get_task_status never sets 'cost_time', so the
\* download of lines 45-48 is never reached.
TestAfterWait ==
    /\ mode = "client"
    /\ tpc = "wait"
    /\ wpc = "done"
    /\ tpc' = IF wres.kind # "return" THEN "failed"
              ELSE IF {"video_url", "cost_time"} \subseteq ResultKeys(status) THEN "download"
              ELSE "failed"
    /\ UNCHANGED <<gatherVars, mode, script_segments, waitVars, batchVars, visualVars, runVars>>

----------------------------------------------------------------------------
(* StorageHandler (src/src/utils/storage.py) *)

\* The methods the class defines (lines 25, 51, 81, 107, 124, 144).
StorageMethods ==
    {"save_audio", "save_image", "save_video", "download_image", "get_file", "get_url"}

\* self.storage.save_clip(...) of video_agent.py line 136: looking up a method
\* the class does not define raises AttributeError before anything is written.
SaveClipOutcomes ==
    IF "save_clip" \in StorageMethods THEN {"saved", "io_error"} ELSE {"attribute_error"}

----------------------------------------------------------------------------
(* VideoAgent.generate_scene_videos (src/src/agents/video_agent.py) *)

RECURSIVE Repeat(_, _)
Repeat(x, n) == IF n <= 0 THEN <<>> ELSE <<x>> \o Repeat(x, n - 1)

Prefix_NoCut(s, n) == s
Prefix(s, n) == SubSeq(s, 1, IF Len(s) < n THEN Len(s) ELSE n)

\* Lines 81-83 (and visual_agent.py 41-43): [-1] of an empty list raises IndexError.
PadRaises(descs, n) == Len(descs) < n /\ Len(descs) = 0
PadDescriptions_RepeatFirst(descs, n) ==
    IF Len(descs) < n THEN descs \o Repeat(descs[1], n - Len(descs)) ELSE descs
PadDescriptions(descs, n) ==
    IF Len(descs) < n THEN descs \o Repeat(descs[Len(descs)], n - Len(descs)) ELSE descs

\* The script_segments a caller may pass: the visual of segment j is written -j
\* (generated descriptions are written 1, 2, ...); duration_seconds is 0 when
\* the key is missing or falsy, else the seconds of the segment's audio.
SegmentDurations == {0, 8, 14}
SegmentLists ==
    {[j \in 1..n |-> [visual |-> 0 - j, duration_seconds |-> d]] :
        n \in 0..MaxSegments, d \in SegmentDurations}

\* Line 66: the visuals of the first n segments.
SegmentVisuals(segs, n) ==
    LET p == Prefix(segs, n) IN [j \in 1..Len(p) |-> p[j].visual]

\* Lines 102-112: the duration class of scene idx (0-based).
ClipDuration(d, segs, idx) ==
    IF segs # <<>> /\ idx < Len(segs) /\ segs[idx + 1].duration_seconds # 0
    THEN (IF segs[idx + 1].duration_seconds > 12 THEN "15" ELSE "10")
    ELSE d

\* Lines 87-90: the enhancement step answers with one prompt per description,
\* in order (its fallbacks, lines 248-264, keep the length as well).
Enhance(descs) == descs

\* Lines 149-153: the entry appended for a failed scene.
FailedEntry(idx, prompts, err) ==
    [scene_number |-> idx + 1, prompt |-> prompts[idx + 1], error |-> err]

\* Line 143 (and visual_agent.py 69): the batch's local total.
AddSceneCost_Never(t, c) == t
AddSceneCost(t, c) == t + c

\* The loop variable after one scene has been dealt with (line 98: for ... in enumerate).
NextScene_SkipAfterFailure(idx, n, failed) == IF failed THEN idx + 2 ELSE idx + 1
NextScene_RetryOnFailure(idx, n, failed) == IF failed THEN idx ELSE idx + 1
NextScene_StopOnFailure(idx, n, failed) == IF failed THEN n ELSE idx + 1
NextScene(idx, n, failed) == idx + 1

\* The call: arguments bound, nothing done yet.
BatchCall(n, d) ==
    /\ bpc' = "describe"
    /\ num_scenes' = n
    /\ duration' = d
    /\ candidates' = <<>>
    /\ scene_descriptions' = <<>>
    /\ video_prompts' = <<>>
    /\ i' = 0
    /\ video_paths' = <<>>
    /\ batch_cost' = 0
    /\ failed_scenes' = <<>>
    /\ tasks' = <<>>
    /\ bres' = NoRes
    /\ UNCHANGED result

WaitReset ==
    /\ job' = NoJob
    /\ wpc' = "idle"
    /\ elapsed' = 0
    /\ status' = NoStatus
    /\ polls' = 0
    /\ wres' = NoRes
    /\ UNCHANGED <<max_wait_seconds, poll_interval>>

\* Lines 81-96: the list is padded, cut, enhanced; the three locals.  cands is
\* the list the caller and the description model supplied, descs the local
\* scene_descriptions made of it (line 66 has cut the segments already).
UseDescriptions(cands, descs) ==
    IF PadRaises(descs, num_scenes)
    THEN /\ bpc' = "done"
         /\ bres' = [kind |-> "raise", text |-> "list index out of range"]
         /\ candidates' = cands
         /\ scene_descriptions' = descs
         /\ UNCHANGED video_prompts
    ELSE /\ candidates' = cands
         /\ scene_descriptions' = PadDescriptions(descs, num_scenes)
         /\ video_prompts' = Enhance(Prefix(PadDescriptions(descs, num_scenes), num_scenes))
         /\ bpc' = "loop"
         /\ UNCHANGED bres

\* Lines 57-96: scene descriptions, from the segments (lines 64-66) and, when
\* these are fewer than num_scenes or absent, from the description model
\* (lines 69-73, 76-79), which may raise or answer with any number of items.
\* When it raises, the local list holds what line 66 assigned before the call:
\* the visuals of the segments, or nothing when no segment was passed.
BatchDescribe ==
    /\ bpc = "describe"
    /\ LET fromSegs == SegmentVisuals(script_segments, num_scenes)
       IN IF script_segments # <<>> /\ ~(Len(fromSegs) < num_scenes)
          THEN UseDescriptions(SegmentVisuals(script_segments, Len(script_segments)), fromSegs)
          ELSE \/ /\ bpc' = "done"
                  /\ bres' = [kind |-> "raise", text |-> "Scene description generation failed"]
                  /\ candidates' = fromSegs
                  /\ scene_descriptions' = fromSegs
                  /\ UNCHANGED video_prompts
               \/ \E k \in 0..MaxDescriptions :
                    UseDescriptions(fromSegs \o [x \in 1..k |-> x],
                                    fromSegs \o [x \in 1..k |-> x])
    /\ UNCHANGED <<num_scenes, duration, i, result, video_paths, batch_cost, failed_scenes, tasks>>
    /\ UNCHANGED <<gatherVars, mode, script_segments, waitVars, tpc, visualVars, runVars>>

\* A caller other than the orchestrator calls generate_scene_videos, with or
\* without script_segments (lines 24-33).
DirectBatchCall ==
    /\ mode = "batch"
    /\ tpc = "call"
    /\ BatchCall(num_scenes, duration)
    /\ tpc' = "called"
    /\ UNCHANGED <<gatherVars, mode, script_segments, waitVars, visualVars, runVars>>

\* Lines 125-129: the loop body awaits wait_for_completion right after the
\* submission, so the loop does not go on to the next scene before the wait
\* of this one is over.
AfterSubmit == "wait"

\* Lines 98-129: the next prompt is taken, the task is created and the wait
\* begins; a rejected submission is caught by line 147.
SceneSubmit ==
    /\ bpc = "loop"
    /\ i < Len(video_prompts)
    /\ \/ /\ result' = [cost_usd |-> SubmitCost(ClipDuration(duration, script_segments, i)),
                         status |-> "processing"]
          /\ job' = [state |-> "pending", doneAt |-> -1]
          /\ WaitStart(BatchMaxWait, BatchPollInterval)
          /\ tasks' = Append(tasks, [scene |-> i, submitted |-> TRUE,
                                     cost |-> SubmitCost(ClipDuration(duration, script_segments, i)),
                                     outcome |-> "waiting"])
          /\ bpc' = AfterSubmit
          /\ UNCHANGED <<i, failed_scenes>>
       \/ /\ failed_scenes' = Append(failed_scenes, FailedEntry(i, video_prompts, "submit_error"))
          /\ tasks' = Append(tasks, [scene |-> i, submitted |-> FALSE,
                                     cost |-> 0, outcome |-> "submit_error"])
          /\ i' = NextScene(i, Len(video_prompts), TRUE)
          /\ UNCHANGED <<result, waitVars, bpc>>
    /\ UNCHANGED <<num_scenes, duration, candidates, scene_descriptions, video_prompts,
                   video_paths, batch_cost, bres>>
    /\ UNCHANGED <<gatherVars, mode, script_segments, tpc, visualVars, runVars>>

\* What happens to a scene once its wait is over (lines 125-153).
SceneOutcomes ==
    IF wres.kind = "timeout" THEN {"timeout"}
    ELSE IF wres.kind = "fail" THEN {"job_failed"}
    ELSE IF wres.kind = "poll_error" THEN {"poll_error"}
    ELSE IF status.video_url = "absent" THEN {"no_video_url"}       \* KeyError, line 133
    ELSE {"download_error"} \cup SaveClipOutcomes                   \* lines 133, 136

SceneErrorText(o) ==
    IF o = "job_failed" THEN wres.text ELSE o

SceneAfterWait ==
    /\ bpc = "wait"
    /\ wpc = "done"
    /\ \E o \in SceneOutcomes :
        /\ tasks' = [tasks EXCEPT ![Len(tasks)].outcome = o]
        /\ IF o = "saved"
           THEN /\ video_paths' = Append(video_paths, i + 1)
                /\ batch_cost' = AddSceneCost(batch_cost, result.cost_usd)
                /\ i' = NextScene(i, Len(video_prompts), FALSE)
                /\ UNCHANGED failed_scenes
           ELSE /\ failed_scenes' = Append(failed_scenes,
                                           FailedEntry(i, video_prompts, SceneErrorText(o)))
                /\ i' = NextScene(i, Len(video_prompts), TRUE)
                /\ UNCHANGED <<video_paths, batch_cost>>
    /\ bpc' = "loop"
    /\ WaitReset
    /\ UNCHANGED <<num_scenes, duration, candidates, scene_descriptions, video_prompts, result, bres>>
    /\ UNCHANGED <<gatherVars, mode, script_segments, tpc, visualVars, runVars>>

\* Lines 156-172: the loop is over and the dict is returned.
BatchReturn ==
    /\ bpc = "loop"
    /\ ~(i < Len(video_prompts))
    /\ bpc' = "done"
    /\ bres' = [kind          |-> "return",
                video_paths   |-> video_paths,
                scene_descriptions |-> Prefix(scene_descriptions, num_scenes),
                video_prompts |-> video_prompts,
                num_videos    |-> Len(video_paths),
                num_failed    |-> Len(failed_scenes),
                failed_scenes |-> failed_scenes,
                cost_usd      |-> batch_cost]
    /\ UNCHANGED <<num_scenes, duration, candidates, scene_descriptions, video_prompts, i, result,
                   video_paths, batch_cost, failed_scenes, tasks>>
    /\ UNCHANGED <<gatherVars, mode, script_segments, waitVars, tpc, visualVars, runVars>>

----------------------------------------------------------------------------
(* VisualAgent.generate_scene_images (src/src/agents/visual_agent.py) *)

\* The increasing sequence of the members of a set of prompt positions:
\* generate_images_batch (openai_client.py 214-224) keeps the results of the
\* prompts that succeeded, in prompt order.
RECURSIVE Ascending(_)
Ascending(S) ==
    IF S = {} THEN <<>>
    ELSE LET m == CHOOSE x \in S : \A y \in S : x <= y
         IN <<m>> \o Ascending(S \ {m})

\* The orders in which n image requests started together can finish.
CompletionOrders(n) ==
    {o \in [1..n -> 1..n] : \A a, b \in 1..n : a # b => o[a] # o[b]}

\* asyncio.gather (openai_client.py 215) answers in the order of the requests,
\* whatever the order they finished in; lines 217-222 drop the failed ones.
GatherResults_CompletionOrder(ok, order) == SelectSeq(order, LAMBDA x : x \in ok)
GatherResults(ok, order) == Ascending(ok)

\* generate_video lines 66-91: what a rejected submission raises (an HTTP
\* error status, line 88; a body whose code is not 200, line 73, wrapped at 91).
SubmitErrors ==
    {"Sora 2 API error: 500", "Video generation failed: Sora 2 API error"}

\* generate_video_batch, lines 239-251: one generate_video coroutine per prompt,
\* all handed to asyncio.gather, which the call awaits.  With no prompt gather
\* returns the empty list.
GenerateVideoBatch ==
    /\ mode = "gather"
    /\ gres = NoRes
    /\ gsub = <<>>
    /\ gsub' = [p \in 1..num_scenes |-> "pending"]
    /\ gres' = IF num_scenes = 0 THEN [kind |-> "return", results |-> <<>>] ELSE gres
    /\ UNCHANGED gjobs
    /\ UNCHANGED <<mode, script_segments, waitVars, tpc, batchVars, visualVars, runVars>>

\* The results gather returns: one per prompt, in prompt order (lines 73-91).
GatheredResults ==
    [p \in 1..num_scenes |->
        [prompt |-> p, cost_usd |-> SubmitCost(duration), status |-> "processing"]]

\* One of the submissions is answered (generate_video, lines 66-96); each is a
\* task of its own on the event loop.  Accepted: the job exists at the
\* provider; when it was the last one and none was rejected, the call returns
\* (lines 251-252).  Rejected: when the call has not ended yet, it raises that
\* error at once; gather cancels nothing, so the submissions still pending go
\* on after the call has raised, and the task ids of their jobs reach nobody.
SubmissionAnswered ==
    /\ mode = "gather"
    /\ \E p \in 1..Len(gsub) :
          /\ gsub[p] = "pending"
          /\ \/ /\ gsub' = [gsub EXCEPT ![p] = "accepted"]
                /\ gjobs' = Append(gjobs, [prompt |-> p, state |-> "pending"])
                /\ gres' = IF gres = NoRes /\ \A q \in 1..Len(gsub) : q # p => gsub[q] = "accepted"
                           THEN [kind |-> "return", results |-> GatheredResults]
                           ELSE gres
             \/ /\ gsub' = [gsub EXCEPT ![p] = "rejected"]
                /\ \E t \in SubmitErrors :
                      gres' = IF gres = NoRes THEN [kind |-> "raise", text |-> t] ELSE gres
                /\ UNCHANGED gjobs
    /\ UNCHANGED <<mode, script_segments, waitVars, tpc, batchVars, visualVars, runVars>>

VisualCall(n) ==
    /\ bpc' = "vdescribe"
    /\ num_scenes' = n
    /\ candidates' = <<>>
    /\ scene_descriptions' = <<>>
    /\ i' = 0
    /\ batch_cost' = 0
    /\ bres' = NoRes
    /\ image_results' = <<>>
    /\ image_paths' = <<>>
    /\ tasks' = <<>>
    /\ UNCHANGED <<duration, video_prompts, result, video_paths, failed_scenes>>

\* A caller other than the orchestrator calls generate_scene_images (lines 15-20).
DirectVisualCall ==
    /\ mode = "visual"
    /\ tpc = "call"
    /\ VisualCall(num_scenes)
    /\ tpc' = "called"
    /\ UNCHANGED <<gatherVars, mode, script_segments, waitVars, runVars>>

\* Lines 36-55: descriptions, padding, the parallel image generation.
VisualGenerate ==
    /\ bpc = "vdescribe"
    /\ \/ /\ bpc' = "done"
          /\ bres' = [kind |-> "raise", text |-> "Scene description generation failed"]
          /\ UNCHANGED <<candidates, scene_descriptions, image_results, tasks>>
       \/ \E k \in 0..MaxDescriptions :
            LET descs == [x \in 1..k |-> x]
            IN IF PadRaises(descs, num_scenes)
               THEN /\ bpc' = "done"
                    /\ bres' = [kind |-> "raise", text |-> "list index out of range"]
                    /\ candidates' = descs
                    /\ scene_descriptions' = descs
                    /\ UNCHANGED <<image_results, tasks>>
               ELSE /\ candidates' = descs
                    /\ scene_descriptions' = PadDescriptions(descs, num_scenes)
                    /\ \E ok \in SUBSET (1..num_scenes), order \in CompletionOrders(num_scenes) :
                          /\ image_results' = GatherResults(ok, order)
                          /\ tasks' = [p \in 1..num_scenes |->
                                [scene     |-> p - 1,
                                 submitted |-> TRUE,
                                 cost      |-> IF p \in ok THEN ImageCost ELSE 0,
                                 outcome   |-> IF p \in ok THEN "generated"
                                                            ELSE "generate_error"]]
                    /\ bpc' = "vloop"
                    /\ UNCHANGED bres
    /\ UNCHANGED <<num_scenes, duration, video_prompts, i, result, video_paths, batch_cost,
                   failed_scenes, image_paths>>
    /\ UNCHANGED <<gatherVars, mode, script_segments, waitVars, tpc, runVars>>

\* Lines 57-69: one image is downloaded and saved; neither call is guarded, so
\* an error leaves the method.  The text of a transport error is whatever the
\* HTTP library gives it, which for a timeout is the empty string.
VisualSave ==
    /\ bpc = "vloop"
    /\ i < Len(image_results)
    /\ \/ /\ image_paths' = Append(image_paths, [file |-> i + 1, prompt |-> image_results[i + 1]])
          /\ batch_cost' = AddSceneCost(batch_cost, ImageCost)
          /\ i' = i + 1
          /\ tasks' = [tasks EXCEPT ![image_results[i + 1]].outcome = "saved"]
          /\ UNCHANGED <<bpc, bres>>
       \/ \E t \in {"", "404 Not Found"} :
          /\ bpc' = "done"
          /\ bres' = [kind |-> "raise", text |-> t]
          /\ UNCHANGED <<image_paths, batch_cost, i, tasks>>
    /\ UNCHANGED <<num_scenes, duration, candidates, scene_descriptions, video_prompts, result,
                   video_paths, failed_scenes, image_results>>
    /\ UNCHANGED <<gatherVars, mode, script_segments, waitVars, tpc, runVars>>

\* Lines 71-79.
VisualReturn ==
    /\ bpc = "vloop"
    /\ ~(i < Len(image_results))
    /\ bpc' = "done"
    /\ bres' = [kind        |-> "return",
                image_paths |-> image_paths,
                scene_descriptions |-> Prefix(scene_descriptions, num_scenes),
                num_images  |-> Len(image_paths),
                cost_usd    |-> batch_cost]
    /\ UNCHANGED <<num_scenes, duration, candidates, scene_descriptions, video_prompts, i, result,
                   video_paths, batch_cost, failed_scenes, tasks>>
    /\ UNCHANGED <<gatherVars, mode, script_segments, waitVars, tpc, visualVars, runVars>>

----------------------------------------------------------------------------
(* VideoService (src/src/services/video_service.py) *)

\* The Video row as generate_video (65-78) / generate_video_sora2 (434-450) /
\* generate_video_stream (270-283) construct it.  steps holds the keys the
\* code adds to processing_steps; total_cost_usd is processing_steps["total_cost_usd"],
\* the empty sequence as long as the key is not there.  None is written "none"
\* in a text column, NoPath in thumbnail_url and NoPaths in scene_images
\* (saved images and their prompts are numbered from 1).
NoPath  == [prompt |-> 0, file |-> 0]
NoPaths == <<NoPath>>
NewVideo ==
    [status         |-> "processing",
     script         |-> "",
     voiceover_url  |-> "none",
     scene_images   |-> NoPaths,
     video_url      |-> "none",
     thumbnail_url  |-> NoPath,
     error_message  |-> "none",
     steps          |-> {},
     total_cost_usd |-> <<>>]

\* The attributes the Video model declares that the orchestrators write
\* (src/src/models/database.py lines 86-98); metadata_, video_path,
\* thumbnail_path and cost_usd are not among the model's columns.
VideoAttributes ==
    {"script", "script_metadata", "voiceover_url", "scene_images", "video_url",
     "thumbnail_url", "status", "error_message", "processing_steps"}

\* total_cost += <stage cost>  (lines 95, 118, 140, 163 / 467, 490, 531, 559 / 295).
AccumulateCost_Drop(t, c) == t
AccumulateCost_Overwrite(t, c) == c
AccumulateCost_Twice(t, c) == t + c + c
AccumulateCost(t, c) == t + c

\* The fixed order of the stage calls in the body of the try block.
StageAfter_SkipVoice(p) ==
    CASE p = "script_commit" -> "scenes"
      [] p = "voice_commit"  -> "scenes"
      [] p = "scenes_commit" -> "assembly"
StageAfter(p) ==
    CASE p = "script_commit" -> "voice"
      [] p = "voice_commit"  -> "scenes"
      [] p = "scenes_commit" -> "assembly"

Pipelines == {"image", "sora2", "stream"}

\* What a commit writes for the object: the columns that were assigned.
\* processing_steps is a plain JSON column (database.py line 98) whose keys are
\* set in place (lines 123, 145, 170-171 / 495, 539, 566-567): the session
\* does not see such a change and sends no UPDATE for it, so the row keeps the
\* processing_steps it was inserted with.
CommittedRow(row, v) ==
    [v EXCEPT !.steps = row.steps, !.total_cost_usd = row.total_cost_usd]

\* The object after the session has rolled back and expired it: its
\* attributes read as the committed row's; an object that was never inserted
\* is expunged and keeps what it was given.
Expired(rows, v) == IF rows = <<>> THEN v ELSE rows[1]

\* How `await db.commit()` can raise.  Session.commit flushes (INSERT / UPDATE)
\* and then sends COMMIT.  "flush": the flush raised; the session rolls the
\* transaction back and expires its objects.  "commit_lost": the COMMIT
\* statement raised and was not applied; nothing is rolled back or expired by
\* the session.  "commit_applied": the COMMIT statement raised (the connection
\* was lost after the server had applied it); the object is as before and the
\* row is written.  The service never calls db.rollback().
CommitFailures == {"flush", "commit_lost", "commit_applied"}

\* The object the orchestrator holds after a commit that raised as o.
ObjectAfter(o, rows, v) == IF o = "flush" THEN Expired(rows, v) ELSE v

\* The table after a commit that raised as o, written being what the commit
\* was writing.
RowsAfter(o, rows, written) == IF o = "commit_applied" THEN written ELSE rows

\* The exception of a commit that raised as o.
CommitError(o) == [kind |-> "commit", text |-> "connection lost", phase |-> o]

\* Lines 79-80 / 451-452 (outside the try block) and 284-285 (inside it).
CreateRecord ==
    /\ mode \in Pipelines
    /\ pc = "create"
    /\ \/ /\ video' = NewVideo
          /\ db' = <<NewVideo>>
          /\ pc' = IF mode = "stream" THEN "phase1" ELSE "script"
          /\ UNCHANGED exc
       \/ \E o \in CommitFailures :
             /\ video' = NewVideo
             /\ db' = RowsAfter(o, db, <<NewVideo>>)
             /\ exc' = CommitError(o)
             /\ pc' = IF mode = "stream" THEN "handler" ELSE "raised"
    /\ UNCHANGED <<total_cost, costs, calls, ret, events>>
    /\ UNCHANGED <<gatherVars, mode, script_segments, waitVars, tpc, batchVars, visualVars>>

\* Phase 1, lines 86-106 / 458-478: the script agent is called; on success the
\* cost is added and the row's script fields are assigned.
ScriptStage ==
    /\ mode \in {"image", "sora2"}
    /\ pc = "script"
    /\ calls' = Append(calls, "script")
    /\ \/ \E c \in ScriptCosts :
            /\ costs' = [costs EXCEPT !.script = c]
            /\ total_cost' = AccumulateCost(total_cost, c)
            /\ video' = [video EXCEPT !.script = "full_script"]
            /\ pc' = "script_commit"
            /\ UNCHANGED exc
       \/ /\ exc' = [kind |-> "script", text |-> "Script generation failed"]
          /\ pc' = "handler"
          /\ UNCHANGED <<costs, total_cost, video>>
    /\ UNCHANGED <<db, ret, events>>
    /\ UNCHANGED <<gatherVars, mode, script_segments, waitVars, tpc, batchVars, visualVars>>

\* await db.commit() after a stage (lines 107, 128, 149 / 479, 500, 546).
StageCommit ==
    /\ mode \in {"image", "sora2"}
    /\ pc \in {"script_commit", "voice_commit", "scenes_commit"}
    /\ \/ /\ db' = <<CommittedRow(db[1], video)>>
          /\ pc' = StageAfter(pc)
          /\ UNCHANGED <<exc, video>>
       \/ \E o \in CommitFailures :
             /\ exc' = CommitError(o)
             /\ pc' = "handler"
             /\ video' = ObjectAfter(o, db, video)
             /\ db' = RowsAfter(o, db, <<CommittedRow(db[1], video)>>)
    /\ UNCHANGED <<total_cost, costs, calls, ret, events>>
    /\ UNCHANGED <<gatherVars, mode, script_segments, waitVars, tpc, batchVars, visualVars>>

\* Phase 2, lines 112-127 / 484-499.
VoiceStage ==
    /\ mode \in {"image", "sora2"}
    /\ pc = "voice"
    /\ calls' = Append(calls, "voice")
    /\ \/ \E c \in VoiceCosts :
            /\ costs' = [costs EXCEPT !.voice = c]
            /\ total_cost' = AccumulateCost(total_cost, c)
            /\ video' = [video EXCEPT !.voiceover_url = "audio.mp3",
                                      !.steps = @ \cup {"audio"}]
            /\ pc' = "voice_commit"
            /\ UNCHANGED exc
       \/ /\ exc' = [kind |-> "voice", text |-> "Voice synthesis failed"]
          /\ pc' = "handler"
          /\ UNCHANGED <<costs, total_cost, video>>
    /\ UNCHANGED <<db, ret, events>>
    /\ UNCHANGED <<gatherVars, mode, script_segments, waitVars, tpc, batchVars, visualVars>>

\* Phase 3 begins: line 133 (generate_scene_images) / line 509 (generate_scene_videos).
ScenesBegin ==
    /\ mode \in {"image", "sora2"}
    /\ pc = "scenes"
    /\ calls' = Append(calls, "scenes")
    /\ pc' = "scenes_wait"
    /\ IF mode = "sora2"
       THEN BatchCall(num_scenes, duration) /\ UNCHANGED visualVars
       ELSE VisualCall(num_scenes)
    /\ UNCHANGED <<video, db, total_cost, costs, exc, ret, events>>
    /\ UNCHANGED <<gatherVars, mode, script_segments, waitVars, tpc>>

\* Line 518: "if not video_data.get('video_paths')".
NoVideos(paths) == paths = <<>>

\* Phase 3 ends, generate_video_sora2 lines 517-545.
ScenesEndSora2 ==
    /\ mode = "sora2"
    /\ pc = "scenes_wait"
    /\ bpc = "done"
    /\ IF bres.kind = "raise"
       THEN /\ exc' = [kind |-> "scenes", text |-> bres.text]
            /\ pc' = "handler"
            /\ UNCHANGED <<costs, total_cost, video>>
       ELSE IF NoVideos(bres.video_paths)
       THEN /\ exc' = [kind |-> "no_videos", text |-> "Sora 2 video generation failed for all scenes"]
            /\ pc' = "handler"
            /\ UNCHANGED <<costs, total_cost, video>>
       ELSE /\ costs' = [costs EXCEPT !.visual = bres.cost_usd]
            /\ total_cost' = AccumulateCost(total_cost, bres.cost_usd)
            /\ video' = [video EXCEPT !.scene_images = bres.video_paths,
                                      !.steps = @ \cup {"sora2_videos"}]
            /\ pc' = "scenes_commit"
            /\ UNCHANGED exc
    /\ bpc' = "idle"
    /\ UNCHANGED <<num_scenes, duration, candidates, scene_descriptions, video_prompts, i, result,
                   video_paths, batch_cost, failed_scenes, tasks, bres>>
    /\ UNCHANGED <<db, calls, ret, events>>
    /\ UNCHANGED <<gatherVars, mode, script_segments, waitVars, tpc, visualVars>>

\* Phase 3 ends, generate_video lines 138-148: no test of the number of images.
ScenesEndImage ==
    /\ mode = "image"
    /\ pc = "scenes_wait"
    /\ bpc = "done"
    /\ IF bres.kind = "raise"
       THEN /\ exc' = [kind |-> "scenes", text |-> bres.text]
            /\ pc' = "handler"
            /\ UNCHANGED <<costs, total_cost, video>>
       ELSE /\ costs' = [costs EXCEPT !.visual = bres.cost_usd]
            /\ total_cost' = AccumulateCost(total_cost, bres.cost_usd)
            /\ video' = [video EXCEPT !.scene_images = bres.image_paths,
                                      !.steps = @ \cup {"images"}]
            /\ pc' = "scenes_commit"
            /\ UNCHANGED exc
    /\ bpc' = "idle"
    /\ UNCHANGED <<num_scenes, duration, candidates, scene_descriptions, video_prompts, i, result,
                   video_paths, batch_cost, failed_scenes, tasks, bres>>
    /\ UNCHANGED <<db, calls, ret, events>>
    /\ UNCHANGED <<gatherVars, mode, script_segments, waitVars, tpc, visualVars>>

\* What the assembly agent can do with the list it is given: an empty list is
\* rejected (ffmpeg_utils.py 35-36 and 216-217, re-raised by assembly_agent.py
\* 83-87 and 152-156); FFmpeg missing or failing raises as well.
AssemblyOutcomes(paths) == IF paths = <<>> THEN {"raise"} ELSE {"ok", "raise"}

\* Phase 4, lines 154-171 / 551-567: the assembly agent is called; on success
\* the final fields and the status are assigned.
AssemblyStage ==
    /\ mode \in {"image", "sora2"}
    /\ pc = "assembly"
    /\ calls' = Append(calls, "assembly")
    /\ \E o \in AssemblyOutcomes(video.scene_images) :
        IF o = "ok"
        THEN /\ costs' = [costs EXCEPT !.assembly = AssemblyCost]
             /\ total_cost' = AccumulateCost(total_cost, AssemblyCost)
             /\ video' = [video EXCEPT !.video_url = "final.mp4",
                                       !.thumbnail_url = video.scene_images[1],
                                       !.status = "completed",
                                       !.steps = @ \cup {"assembly"},
                                       !.total_cost_usd = <<AccumulateCost(total_cost, AssemblyCost)>>]
             /\ pc' = "final_commit"
             /\ UNCHANGED exc
        ELSE /\ exc' = [kind |-> "assembly", text |-> "Video assembly failed"]
             /\ pc' = "handler"
             /\ UNCHANGED <<costs, total_cost, video>>
    /\ UNCHANGED <<db, ret, events>>
    /\ UNCHANGED <<gatherVars, mode, script_segments, waitVars, tpc, batchVars, visualVars>>

\* Lines 172-224 / 568-610: the last commit, then the dict is built and returned.
FinalCommit ==
    /\ mode \in {"image", "sora2"}
    /\ pc = "final_commit"
    /\ \/ /\ db' = <<CommittedRow(db[1], video)>>
          /\ ret' = [kind           |-> "return",
                     video_path     |-> video.video_url,
                     cost_usd       |-> total_cost,
                     cost_breakdown |-> costs]
          /\ pc' = "returned"
          /\ UNCHANGED <<exc, video>>
       \/ \E o \in CommitFailures :
             /\ exc' = CommitError(o)
             /\ pc' = "handler"
             /\ video' = ObjectAfter(o, db, video)
             /\ db' = RowsAfter(o, db, <<CommittedRow(db[1], video)>>)
             /\ UNCHANGED ret
    /\ UNCHANGED <<total_cost, costs, calls, events>>
    /\ UNCHANGED <<gatherVars, mode, script_segments, waitVars, tpc, batchVars, visualVars>>

\* except Exception as e: lines 226-229 / 376-379 / 612-615.
Handler_ClearsRecord ==
    /\ mode \in Pipelines
    /\ pc = "handler"
    /\ video' = [NewVideo EXCEPT !.status = "failed", !.error_message = exc.text]
    /\ pc' = "handler_commit"
    /\ UNCHANGED <<db, total_cost, costs, calls, exc, ret, events>>
    /\ UNCHANGED <<gatherVars, mode, script_segments, waitVars, tpc, batchVars, visualVars>>
Handler ==
    /\ mode \in Pipelines
    /\ pc = "handler"
    /\ video' = [video EXCEPT !.status = "failed", !.error_message = exc.text]
    /\ pc' = "handler_commit"
    /\ UNCHANGED <<db, total_cost, costs, calls, exc, ret, events>>
    /\ UNCHANGED <<gatherVars, mode, script_segments, waitVars, tpc, batchVars, visualVars>>

\* Lines 237 / 623: the text put before str(e) in the exception raised to the caller.
WrapperPrefix(m) ==
    IF m = "sora2" THEN "Sora 2 video generation failed: " ELSE "Video generation failed: "

\* The stage whose agent ended its call by raising: the kind of e itself, or,
\* when e was raised while another exception was being handled or thrown into
\* an agent's call, the kind of that one (__context__).
Raised(e) == IF "context" \in DOMAIN e THEN e.context ELSE e.kind

\* The commit of the handler finds the session unusable when a commit has
\* raised before it: after a failed flush the transaction is rolled back and
\* inactive (PendingRollbackError), after a failed COMMIT the connection's
\* transaction is inactive; either way it raises before it flushes.
SessionError(e) ==
    [kind    |-> "commit",
     text    |-> (IF e.phase = "flush" THEN "transaction has been rolled back"
                  ELSE "transaction is inactive"),
     context |-> Raised(e)]

\* Lines 230-237 / 616-623: the commit of the handler, then the wrapped error is
\* raised; line 380: then the error event is yielded (StreamError).  When an
\* earlier commit has raised, this one raises at once and writes nothing: the
\* object keeps the status and the message the handler assigned.
HandlerCommit ==
    /\ mode \in Pipelines
    /\ pc = "handler_commit"
    /\ IF exc.kind = "commit"
       THEN /\ exc' = SessionError(exc)
            /\ pc' = "raised"
            /\ UNCHANGED <<video, db>>
       ELSE \/ /\ db' = <<CommittedRow(db[1], video)>>
               /\ pc' = IF mode = "stream" THEN "yield_error" ELSE "raised"
               /\ exc' = IF mode = "stream" THEN exc
                         ELSE [kind |-> exc.kind, text |-> WrapperPrefix(mode) \o exc.text]
               /\ UNCHANGED video
            \/ \E o \in CommitFailures :
                  /\ exc' = [kind |-> "commit", text |-> "connection lost",
                              context |-> Raised(exc)]
                  /\ pc' = "raised"
                  /\ video' = ObjectAfter(o, db, video)
                  /\ db' = RowsAfter(o, db, <<CommittedRow(db[1], video)>>)
    /\ UNCHANGED <<total_cost, costs, calls, ret, events>>
    /\ UNCHANGED <<gatherVars, mode, script_segments, waitVars, tpc, batchVars, visualVars>>

----------------------------------------------------------------------------
(* VideoService.generate_video_stream, lines 266-383 *)

\* Line 267: the first event, before the row exists.
StreamStart ==
    /\ mode = "stream"
    /\ pc = "start"
    /\ events' = Append(events, [event |-> "start"])
    /\ pc' = "create"
    /\ UNCHANGED <<video, db, total_cost, costs, calls, exc, ret>>
    /\ UNCHANGED <<gatherVars, mode, script_segments, waitVars, tpc, batchVars, visualVars>>

\* Line 288.
StreamPhaseBegin ==
    /\ mode = "stream"
    /\ pc = "phase1"
    /\ events' = Append(events, [event |-> "phase", phase |-> 1, status |-> "processing"])
    /\ pc' = "script"
    /\ UNCHANGED <<video, db, total_cost, costs, calls, exc, ret>>
    /\ UNCHANGED <<gatherVars, mode, script_segments, waitVars, tpc, batchVars, visualVars>>

\* Lines 289-297: the script agent is called; on success the cost is added,
\* video.script is assigned, and line 297 reads video.metadata_: an attribute
\* the Video model does not have, so AttributeError is raised there and the
\* rest of the try block (lines 298-374) is never reached.
StreamScriptStage ==
    /\ mode = "stream"
    /\ pc = "script"
    /\ calls' = Append(calls, "script")
    /\ \/ \E c \in ScriptCosts :
            /\ costs' = [costs EXCEPT !.script = c]
            /\ total_cost' = AccumulateCost(total_cost, c)
            /\ video' = [video EXCEPT !.script = "full_script"]
            /\ IF "metadata_" \in VideoAttributes
               THEN /\ pc' = "script_commit"
                    /\ UNCHANGED exc
               ELSE /\ exc' = [kind |-> "attribute",
                               text |-> "'Video' object has no attribute 'metadata_'"]
                    /\ pc' = "handler"
       \/ /\ exc' = [kind |-> "script", text |-> "Script generation failed"]
          /\ pc' = "handler"
          /\ UNCHANGED <<costs, total_cost, video>>
    /\ UNCHANGED <<db, ret, events>>
    /\ UNCHANGED <<gatherVars, mode, script_segments, waitVars, tpc, batchVars, visualVars>>

\* Line 382: the error event; the generator is suspended there until the
\* consumer asks for the next event.
StreamError ==
    /\ mode = "stream"
    /\ pc = "yield_error"
    /\ events' = Append(events, [event |-> "error", message |-> exc.text])
    /\ pc' = "reraise"
    /\ UNCHANGED <<video, db, total_cost, costs, calls, exc, ret>>
    /\ UNCHANGED <<gatherVars, mode, script_segments, waitVars, tpc, batchVars, visualVars>>

\* The yields (lines 267, 288, 382) at which the generator waits for its consumer.
SuspendedAtYield == mode = "stream" /\ pc \in {"create", "script", "reraise"}

\* Line 266: the generator has been made and no event has been asked for.
Unstarted == mode = "stream" /\ pc = "start"

\* The consumer stops reading: the generator is closed where it is suspended,
\* or before it has run at all.  GeneratorExit is raised at that yield; it is
\* a BaseException, so `except Exception` (line 376) does not catch it, and
\* the body has no finally clause: nothing else runs.
StreamDisconnect_Handled ==
    /\ SuspendedAtYield
    /\ pc' = "handler"
    /\ exc' = [kind |-> "generator_exit", text |-> ""]
    /\ ret' = [kind |-> "closed"]
    /\ UNCHANGED <<video, db, total_cost, costs, calls, events>>
    /\ UNCHANGED <<gatherVars, mode, script_segments, waitVars, tpc, batchVars, visualVars>>
StreamDisconnect ==
    /\ SuspendedAtYield \/ Unstarted
    /\ pc' = "closed"
    /\ ret' = [kind |-> "closed"]
    /\ UNCHANGED <<video, db, total_cost, costs, calls, exc, events>>
    /\ UNCHANGED <<gatherVars, mode, script_segments, waitVars, tpc, batchVars, visualVars>>

\* The consumer's task is cancelled while the generator is inside an await;
\* CancelledError is a BaseException as well: it leaves the generator.
\* Line 285, the first commit: the object has been made; the row is inserted
\* only if the COMMIT statement had got through.  Line 289, the script agent's
\* call: the call ends by raising CancelledError.  Line 380, the handler's
\* commit (it awaits only when no commit has raised before): the cancellation
\* lands in the flush (rolled back, the object expired), between the flush and
\* the COMMIT (nothing written, the object as assigned) or while the COMMIT is
\* in flight (the row written).
StreamCancel ==
    /\ mode = "stream"
    /\ \/ /\ pc = "create"
          /\ video' = NewVideo
          /\ \E o \in CommitFailures : db' = RowsAfter(o, db, <<NewVideo>>)
          /\ UNCHANGED <<calls, exc>>
       \/ /\ pc = "script"
          /\ calls' = Append(calls, "script")
          /\ exc' = [kind |-> "cancelled", text |-> "", context |-> "script"]
          /\ UNCHANGED <<video, db>>
       \/ /\ pc = "handler_commit"
          /\ exc.kind # "commit"
          /\ \E o \in CommitFailures :
                /\ video' = ObjectAfter(o, db, video)
                /\ db' = RowsAfter(o, db, <<CommittedRow(db[1], video)>>)
          /\ UNCHANGED <<calls, exc>>
    /\ pc' = "closed"
    /\ ret' = [kind |-> "closed"]
    /\ UNCHANGED <<total_cost, costs, events>>
    /\ UNCHANGED <<gatherVars, mode, script_segments, waitVars, tpc, batchVars, visualVars>>

\* Line 383: resumed after the error event, the generator re-raises.
StreamReraise ==
    /\ mode = "stream"
    /\ pc = "reraise"
    /\ pc' = "raised"
    /\ UNCHANGED <<video, db, total_cost, costs, calls, exc, ret, events>>
    /\ UNCHANGED <<gatherVars, mode, script_segments, waitVars, tpc, batchVars, visualVars>>

----------------------------------------------------------------------------
InitIdle ==
    /\ gsub = <<>>
    /\ gjobs = <<>>
    /\ gres = NoRes
    /\ job = NoJob
    /\ wpc = "idle"
    /\ elapsed = 0
    /\ status = NoStatus
    /\ polls = 0
    /\ wres = NoRes
    /\ bpc = "idle"
    /\ candidates = <<>>
    /\ scene_descriptions = <<>>
    /\ video_prompts = <<>>
    /\ i = 0
    /\ result = [cost_usd |-> 0, status |-> "none"]
    /\ video_paths = <<>>
    /\ batch_cost = 0
    /\ failed_scenes = <<>>
    /\ tasks = <<>>
    /\ bres = NoRes
    /\ image_results = <<>>
    /\ image_paths = <<>>
    /\ video = [status |-> "none"]
    /\ db = <<>>
    /\ total_cost = 0
    /\ costs = [script |-> 0, voice |-> 0, visual |-> 0, assembly |-> 0]
    /\ calls = <<>>
    /\ exc = NoExc
    /\ ret = NoRes
    /\ events = <<>>

InitClient ==
    /\ mode = "client"
    /\ script_segments = <<>>
    /\ tpc = "submit"
    /\ pc = "idle"
    /\ max_wait_seconds \in 0..MaxWaitSeconds
    /\ poll_interval \in 1..MaxPollInterval
    /\ duration \in Durations
    /\ num_scenes = 0
    /\ InitIdle

InitPipeline ==
    /\ mode \in Pipelines
    /\ script_segments = <<>>
    /\ tpc = "idle"
    /\ pc = IF mode = "stream" THEN "start" ELSE "create"
    /\ max_wait_seconds = 0
    /\ poll_interval = 0
    /\ num_scenes \in 1..MaxScenes
    /\ duration \in (IF mode = "sora2" THEN Durations ELSE {"10"})
    /\ InitIdle

\* The agents called directly: generate_scene_videos with any script_segments,
\* generate_scene_images.
InitBatch ==
    /\ \/ mode = "batch" /\ script_segments \in SegmentLists
       \/ mode = "visual" /\ script_segments = <<>>
    /\ tpc = "call"
    /\ pc = "idle"
    /\ max_wait_seconds = 0
    /\ poll_interval = 0
    /\ num_scenes \in 1..(IF mode = "visual" THEN MaxScenes + 1 ELSE MaxScenes)
    /\ duration = "15"      \* the class the segments' durations can confirm or override
    /\ InitIdle

\* generate_video_batch called directly with num_scenes prompts (none included).
InitGather ==
    /\ mode = "gather"
    /\ script_segments = <<>>
    /\ tpc = "idle"
    /\ pc = "idle"
    /\ max_wait_seconds = 0
    /\ poll_interval = 0
    /\ duration \in Durations
    /\ num_scenes \in 0..MaxScenes
    /\ InitIdle

Init == InitClient \/ InitPipeline \/ InitGather

\* The client called directly with any arguments, a poll_interval of 0 included.
InitWait ==
    /\ mode = "client"
    /\ script_segments = <<>>
    /\ tpc = "submit"
    /\ pc = "idle"
    /\ max_wait_seconds \in 0..MaxWaitSeconds
    /\ poll_interval \in 0..MaxPollInterval
    /\ duration \in Durations
    /\ num_scenes = 0
    /\ InitIdle

Next ==
    \/ WaitPoll
    \/ WaitSleep
    \/ WaitTimeout
    \/ ProviderStep
    \/ TestSubmit
    \/ TestAfterWait
    \/ BatchDescribe
    \/ SceneSubmit
    \/ SceneAfterWait
    \/ BatchReturn
    \/ VisualGenerate
    \/ VisualSave
    \/ VisualReturn
    \/ CreateRecord
    \/ ScriptStage
    \/ StageCommit
    \/ VoiceStage
    \/ ScenesBegin
    \/ ScenesEndSora2
    \/ ScenesEndImage
    \/ AssemblyStage
    \/ FinalCommit
    \/ Handler
    \/ HandlerCommit
    \/ StreamStart
    \/ StreamPhaseBegin
    \/ StreamScriptStage
    \/ StreamError
    \/ StreamReraise
    \/ StreamDisconnect
    \/ StreamCancel
    \/ GenerateVideoBatch
    \/ SubmissionAnswered

Spec == Init /\ [][Next]_vars

\* The two agents called directly.
NextBatch ==
    \/ DirectBatchCall
    \/ BatchDescribe
    \/ SceneSubmit
    \/ WaitPoll
    \/ WaitSleep
    \/ WaitTimeout
    \/ ProviderStep
    \/ SceneAfterWait
    \/ BatchReturn
    \/ DirectVisualCall
    \/ VisualGenerate
    \/ VisualSave
    \/ VisualReturn

SpecBatch == InitBatch /\ [][NextBatch]_vars

\* The three orchestrators alone, with the scheduling the event loop gives
\* them: a coroutine that can take its next step takes it (every stage call
\* and every commit returns or raises, the wait loop goes on, a stream that is
\* read goes on).  What the provider does to a job and whether the consumer of
\* a stream closes it are the environment's choice.
RunStep ==
    \/ WaitPoll
    \/ WaitSleep
    \/ WaitTimeout
    \/ BatchDescribe
    \/ SceneSubmit
    \/ SceneAfterWait
    \/ BatchReturn
    \/ VisualGenerate
    \/ VisualSave
    \/ VisualReturn
    \/ CreateRecord
    \/ ScriptStage
    \/ StageCommit
    \/ VoiceStage
    \/ ScenesBegin
    \/ ScenesEndSora2
    \/ ScenesEndImage
    \/ AssemblyStage
    \/ FinalCommit
    \/ Handler
    \/ HandlerCommit
    \/ StreamStart
    \/ StreamPhaseBegin
    \/ StreamScriptStage
    \/ StreamError
    \/ StreamReraise

NextRun ==
    \/ RunStep
    \/ ProviderStep
    \/ StreamDisconnect
    \/ StreamCancel

\* The runs whose termination is checked: up to MaxRunScenes scenes each.
InitRun == InitPipeline /\ num_scenes <= MaxRunScenes

SpecRun == InitRun /\ [][NextRun]_vars /\ WF_vars(RunStep)

\* The wait alone.  Each await of the loop (the status query, the sleep) and
\* the calls around it return or raise, so no enabled step is put off for ever.
NextWait ==
    \/ TestSubmit
    \/ WaitPoll
    \/ WaitSleep
    \/ WaitTimeout
    \/ ProviderStep
    \/ TestAfterWait

SpecWait ==
    /\ InitWait
    /\ [][NextWait]_vars
    /\ WF_vars(TestSubmit)
    /\ WF_vars(WaitPoll)
    /\ WF_vars(WaitSleep)
    /\ WF_vars(WaitTimeout)
    /\ WF_vars(TestAfterWait)

----------------------------------------------------------------------------
(* Properties *)

StageOrder == <<"script", "voice", "scenes", "assembly">>
Stages     == {"script", "voice", "scenes", "assembly"}

IsPrefix(s, t) == Len(s) <= Len(t) /\ \A k \in 1..Len(s) : s[k] = t[k]

RECURSIVE SavedCost(_)
SavedCost(ts) ==
    IF ts = <<>> THEN 0
    ELSE (IF Head(ts).outcome = "saved" THEN Head(ts).cost ELSE 0) + SavedCost(Tail(ts))

\* The moment the last status query of a finished wait was issued.
LastPollAt == (polls - 1) * poll_interval

\* C1 (as stated): wait_for_completion returns a success result if and only if
\* the job reaches the succeeded state before the deadline (max_wait_seconds
\* after the wait starts); it raises the timeout error if the job is still
\* non-terminal at the deadline and the failure error if the job reaches the
\* failed state before it.  (Waits ended by a failing status query are left out.)
C1_ReturnsIffSucceededBeforeDeadline ==
    (wpc = "done" /\ wres.kind # "poll_error") =>
        /\ (wres.kind = "return") <=> (job.state = "success" /\ job.doneAt < max_wait_seconds)
        /\ (job.state = "fail" /\ job.doneAt < max_wait_seconds) => wres.kind = "fail"
        /\ (job.state = "pending") => wres.kind = "timeout"

\* C1 (amended): the outcome of wait_for_completion is decided by its status
\* queries alone.  It returns iff a query, issued while the slept time is below
\* max_wait_seconds, reports success (the job then did succeed before the
\* deadline); it raises the failure error, carrying the provider's message, iff
\* a query reports fail; it raises the timeout error iff the slept time reaches
\* max_wait_seconds, every query having reported a non-terminal status; a job
\* that turns terminal after the last query was issued ends as a timeout.
C1_WaitOutcome ==
    (wpc = "done") =>
        /\ (wres.kind = "return") <=> (~status.raised /\ status.status = "success")
        /\ (wres.kind = "fail") <=> (~status.raised /\ status.status = "fail")
        /\ (wres.kind = "poll_error") <=> status.raised
        /\ (wres.kind = "return") =>
              /\ job.state = "success"
              /\ job.doneAt < max_wait_seconds
              /\ elapsed < max_wait_seconds
        /\ (wres.kind = "fail") =>
              /\ job.state = "fail"
              /\ wres.text = status.error_message
              /\ wres.text \in {"content policy", "Generation failed"}
        /\ (wres.kind = "timeout") =>
              /\ elapsed >= max_wait_seconds
              /\ status.status \in {"none", "processing", "unknown"}
              /\ (polls = 0) <=> (max_wait_seconds <= 0)
              /\ (job.state # "pending" /\ polls > 0) => job.doneAt >= LastPollAt
        /\ (job.state = "success" /\ polls > 0 /\ job.doneAt < LastPollAt)
              => wres.kind \in {"return", "poll_error"}

\* C1 witness: a job that succeeded before the deadline, after the last query,
\* and whose wait ended as a timeout.
C1_Witness ==
    /\ wpc = "done"
    /\ wres.kind = "timeout"
    /\ polls > 0
    /\ job.state = "success"
    /\ job.doneAt < max_wait_seconds

\* C2: in generate_scene_videos every scene index 0..N-1 is attempted, in
\* order and once, whatever happened to the scenes before it, and every scene
\* that failed has its own entry in failed_scenes.
C2_FailureDoesNotStopSiblings ==
    /\ (mode = "sora2" /\ bpc \in {"loop", "wait"}) =>
          /\ Len(tasks) = (IF bpc = "wait" THEN i + 1 ELSE i)
          /\ Len(video_paths) + Len(failed_scenes) = i
    /\ (mode = "sora2" /\ bres.kind = "return") =>
          /\ Len(video_prompts) = num_scenes
          /\ Len(tasks) = num_scenes
          /\ \A k \in 1..Len(tasks) : tasks[k].scene = k - 1
          /\ \A k \in 1..Len(tasks) :
                tasks[k].outcome # "saved" =>
                    Cardinality({f \in 1..Len(bres.failed_scenes) :
                                    bres.failed_scenes[f].scene_number = k}) = 1
          /\ \A f \in 1..Len(bres.failed_scenes) :
                LET e == bres.failed_scenes[f]
                IN /\ e.scene_number \in 1..num_scenes
                   /\ tasks[e.scene_number].outcome # "saved"
                   /\ e.prompt = video_prompts[e.scene_number]

\* C2 witness: the first scene timed out, the second was rejected at
\* submission, and the batch still returned.
C2_Witness ==
    /\ mode = "sora2"
    /\ bres.kind = "return"
    /\ Len(tasks) >= 2
    /\ tasks[1].outcome = "timeout"
    /\ tasks[2].outcome = "submit_error"
    /\ Len(bres.failed_scenes) >= 2

\* The provider produced the clip of this scene, the agent downloaded it and
\* the file system would have taken it.
ClipDelivered(t) == t.outcome \in {"saved", "attribute_error"}

\* C3: when exactly one scene of the batch times out and the clips of all the
\* others are produced and downloaded, the batch returns N-1 artifacts and one
\* failed entry, for the scene that timed out, and the scene stage does not
\* fail the run.
C3_OneTimeoutKeepsTheRest ==
    \A j \in 1..num_scenes :
        ( /\ mode = "sora2"
          /\ bres.kind = "return"
          /\ num_scenes >= 2
          /\ Len(tasks) = num_scenes
          /\ tasks[j].outcome = "timeout"
          /\ \A k \in 1..num_scenes : k # j => ClipDelivered(tasks[k]) )
        => /\ Len(bres.video_paths) = num_scenes - 1
           /\ bres.num_failed = 1
           /\ bres.failed_scenes[1].scene_number = j
           /\ exc.kind \notin {"scenes", "no_videos"}

\* C4: when the scene batch of a run returns zero artifacts, the assembly
\* stage is never invoked and the run ends with the status Failed.
C4_ZeroArtifactsNeverAssembled ==
    ( /\ mode \in {"image", "sora2"}
      /\ bres.kind = "return"
      /\ (IF mode = "sora2" THEN bres.video_paths ELSE bres.image_paths) = <<>> )
    => /\ \A k \in 1..Len(calls) : calls[k] # "assembly"
       /\ pc \in {"raised", "returned"} => video.status = "failed"

ArtifactAbsent(v, s) ==
    CASE s = "script"   -> v.script = ""
      [] s = "voice"    -> v.voiceover_url = "none"
      [] s = "scenes"   -> v.scene_images = NoPaths
      [] s = "assembly" -> v.video_url = "none"

StageNumber(s) == CHOOSE k \in 1..4 : StageOrder[k] = s

\* C5: once the handler has dealt with the exception of a stage, the status
\* is Failed, the recorded error message is not empty, the failing stage is the
\* last one called, and the artifacts of the failing and the later stages are
\* absent from the record.
C5_FatalStageFailure ==
    (pc \in {"handler_commit", "yield_error", "raised"} /\ exc.kind \in Stages) =>
        /\ video.status = "failed"
        /\ video.error_message \notin {"none", ""}
        /\ calls # <<>> /\ calls[Len(calls)] = exc.kind
        /\ \A k \in StageNumber(exc.kind)..4 : ArtifactAbsent(video, StageOrder[k])

\* C6: the status of a run leaves Processing at most once: a Completed run
\* never becomes Failed, a Failed run never becomes Completed, and no stage is
\* called after either.
C6_TerminalOnce ==
    [][ /\ (video.status = "completed" => video'.status # "failed")
        /\ (video.status = "failed" => video'.status # "completed")
        /\ (video.status \in {"completed", "failed"} => calls' = calls) ]_vars

\* C7: the total cost a completed run exposes (in the returned dict and in the
\* processing_steps of the object the orchestrator holds) is exactly the sum of the costs its four stages reported, which are
\* the entries of the returned cost breakdown.
C7_TotalIsSumOfStageCosts ==
    (pc = "returned") =>
        /\ ret.cost_usd = ((ret.cost_breakdown.script + ret.cost_breakdown.voice)
                            + ret.cost_breakdown.visual) + ret.cost_breakdown.assembly
        /\ ret.cost_breakdown.script \in ScriptCosts
        /\ ret.cost_breakdown.voice \in VoiceCosts
        /\ ret.cost_breakdown.visual = bres.cost_usd
        /\ ret.cost_breakdown.assembly = AssemblyCost
        /\ video.total_cost_usd = <<ret.cost_usd>>

\* C7 witness: a completed run whose scene stage reported a cost.
C7_Witness ==
    /\ pc = "returned"
    /\ video.status = "completed"
    /\ ret.cost_breakdown.visual > 0

\* C8: the cost a batch reports is the sum of the costs of the scenes that
\* were saved; a scene that was submitted and then failed adds nothing.
C8_BatchCostCountsOnlySucceeded ==
    (mode \in {"image", "sora2"} /\ bres.kind = "return") =>
        /\ bres.cost_usd = SavedCost(tasks)
        /\ mode = "image" => bres.cost_usd = ImageCost * Len(bres.image_paths)
        /\ mode = "sora2" => bres.cost_usd = SubmitCost(duration) * Len(bres.video_paths)

\* C8 witness: a batch that returned after a scene was submitted, at a cost,
\* and then failed.
C8_Witness ==
    /\ mode = "sora2"
    /\ bres.kind = "return"
    /\ \E k \in 1..Len(tasks) :
          /\ tasks[k].submitted
          /\ tasks[k].cost > 0
          /\ tasks[k].outcome = "download_error"

\* C9: the stage calls of a run are made in the order script, voice, scenes,
\* assembly, none skipped, and a stage is called only when the stages before
\* it have produced their results.
C9_StagesInOrder ==
    (mode \in Pipelines) =>
        /\ IsPrefix(calls, StageOrder)
        /\ Len(calls) >= 2 => video.script = "full_script"
        /\ Len(calls) >= 3 => video.voiceover_url # "none"
        /\ Len(calls) >= 4 => video.scene_images # NoPaths
        /\ \A k \in 1..4 : (pc = StageOrder[k] /\ mode # "stream") => Len(calls) = k - 1

\* C9 witness: a run that has called all four stages.
C9_Witness ==
    /\ mode \in Pipelines
    /\ calls = StageOrder

\* C10: when the call of a stage is about to begin, the committed record holds
\* the artifacts of the stages before it and their costs.
C10_ArtifactAndCostCommitted ==
    (mode \in {"image", "sora2"} /\ pc \in {"voice", "scenes", "assembly"}) =>
        /\ db # <<>>
        /\ db[1].script = "full_script"
        /\ pc \in {"scenes", "assembly"} => db[1].voiceover_url # "none"
        /\ pc = "assembly" => db[1].scene_images # NoPaths
        /\ db[1].total_cost_usd = <<total_cost>>

\* The error events the stream has yielded so far.
ErrorEvents == {k \in 1..Len(events) : events[k].event = "error"}

\* C11: when the error of a stage has reached the orchestrator and the call
\* has ended by raising, the committed row says Failed and holds an error
\* message: the caller never gets the exception while the row still says
\* Processing; in the streaming variant the same is true as soon as the error
\* event has been yielded.
C11_FailurePersistedBeforeRaise ==
    /\ (mode \in Pipelines /\ pc = "raised" /\ Raised(exc) \in Stages) =>
          /\ db # <<>>
          /\ db[1].status = "failed"
          /\ db[1].error_message # "none"
          /\ exc.kind \in Stages =>
                exc.text = (IF mode = "stream" THEN db[1].error_message
                            ELSE WrapperPrefix(mode) \o db[1].error_message)
    /\ \A k \in ErrorEvents :
          /\ db # <<>>
          /\ db[1].status = "failed"
          /\ events[k].message = db[1].error_message

\* The call of the description model raised (lines 69-73 / 76-79): the batch
\* call ends with that error before line 81.
DescriptionRaised ==
    /\ mode \in {"batch", "visual"}
    /\ bpc = "done"
    /\ bres = [kind |-> "raise", text |-> "Scene description generation failed"]

\* The description step of a batch is over and the description model, if it
\* was asked, has answered: candidates is the list the agent then holds.
Described ==
    /\ mode \in {"batch", "visual"}
    /\ bpc \in {"loop", "wait", "vloop", "done"}
    /\ ~(bpc = "done" /\ bres.kind = "raise" /\ bres.text = "Scene description generation failed")

\* Lines 88-89 (visual_agent.py 49): the descriptions the batch goes on with.
EffectiveDescriptions == Prefix(scene_descriptions, num_scenes)

\* C12 (as stated): a candidate list of length k < N is turned into the k
\* candidates, in their order, followed by N-k repeats of the last one, so that
\* exactly N prompts are used.
C12_ShortListPaddedToN ==
    (Described /\ Len(candidates) < num_scenes) =>
        /\ Len(EffectiveDescriptions) = num_scenes
        /\ \A p \in 1..num_scenes :
              EffectiveDescriptions[p] =
                  (IF p <= Len(candidates) THEN candidates[p] ELSE candidates[Len(candidates)])

\* C12 (amended): a candidate list of length k with 1 <= k < N is turned into
\* the k candidates, in their order, followed by N-k repeats of the last one;
\* the video agent makes exactly N prompts of them, one per position, and the
\* image agent asks for exactly N images; an empty candidate list cannot be
\* padded: the batch raises IndexError and attempts no scene.  When the call
\* of the description model raises, the batch ends with that error before the
\* padding: the descriptions of the segments it holds by then, fewer than N,
\* stay as they are, no prompt is made and no scene is attempted.
C12_NonEmptyShortListPaddedToN ==
    /\ DescriptionRaised =>
          /\ candidates = SegmentVisuals(script_segments, num_scenes)
          /\ scene_descriptions = candidates
          /\ script_segments # <<>> => Len(scene_descriptions) < num_scenes
          /\ video_prompts = <<>>
          /\ tasks = <<>>
    /\ (Described /\ 1 <= Len(candidates) /\ Len(candidates) < num_scenes) =>
          /\ Len(EffectiveDescriptions) = num_scenes
          /\ \A p \in 1..num_scenes :
                EffectiveDescriptions[p] =
                    (IF p <= Len(candidates) THEN candidates[p] ELSE candidates[Len(candidates)])
          /\ mode = "batch" => video_prompts = EffectiveDescriptions
          /\ (mode = "visual" /\ bpc = "vloop") => Len(tasks) = num_scenes
          /\ bres.kind = "return" =>
                /\ bres.scene_descriptions = EffectiveDescriptions
                /\ Len(tasks) = num_scenes
    /\ (Described /\ Len(candidates) = 0) =>
          /\ bpc = "done"
          /\ bres = [kind |-> "raise", text |-> "list index out of range"]
          /\ tasks = <<>>

\* C12 witness: the image agent got two descriptions for three scenes and
\* returned.
C12_Witness ==
    /\ mode = "visual"
    /\ bres.kind = "return"
    /\ candidates = <<1, 2>>
    /\ bres.scene_descriptions = <<1, 2, 2>>

\* C13: of a candidate list longer than N only the first N items are used, in
\* their order: they are what the video agent enhances and submits, what the
\* image agent asks images for, and what the batch returns as its
\* descriptions; this includes a list made of script segments and further
\* generated descriptions.
C13_LongListCutToN ==
    (Described /\ Len(candidates) > num_scenes) =>
        /\ Len(EffectiveDescriptions) = num_scenes
        /\ \A p \in 1..num_scenes : EffectiveDescriptions[p] = candidates[p]
        /\ mode = "batch" => video_prompts = EffectiveDescriptions
        /\ (mode = "visual" /\ bpc = "vloop") => Len(tasks) = num_scenes
        /\ bres.kind = "return" =>
              /\ bres.scene_descriptions = EffectiveDescriptions
              /\ Len(tasks) = num_scenes
              /\ mode = "batch" =>
                    \A f \in 1..Len(bres.failed_scenes) :
                        bres.failed_scenes[f].prompt =
                            candidates[bres.failed_scenes[f].scene_number]

\* C13 witness: one script segment and two further descriptions for two
\* scenes, and the batch returned.
C13_Witness ==
    /\ mode = "batch"
    /\ bres.kind = "return"
    /\ num_scenes = 2
    /\ candidates = <<0 - 1, 1, 2>>
    /\ bres.video_prompts = <<0 - 1, 1>>

\* C14: when the clip of every one of the N scenes of a batch is produced and
\* downloaded, the batch returns N artifacts and no failed entry.
C14_AllSucceedAllReturned ==
    ( /\ mode \in {"sora2", "batch"}
      /\ bres.kind = "return"
      /\ Len(tasks) = num_scenes
      /\ \A k \in 1..num_scenes : ClipDelivered(tasks[k]) )
    => /\ Len(bres.video_paths) = num_scenes
       /\ bres.num_videos = num_scenes
       /\ bres.num_failed = 0
       /\ bres.failed_scenes = <<>>

\* C15: the artifacts a batch has collected are in the order of their scenes
\* (a failed scene leaves no gap), whatever the order the jobs finished in:
\* of two artifacts the one of the lower scene comes first, and the list
\* returned is made of the saved scenes and of them only.
C15_ArtifactsInSceneOrder ==
    /\ \A a, b \in 1..Len(image_paths) :
          a < b => image_paths[a].prompt < image_paths[b].prompt
    /\ \A a, b \in 1..Len(video_paths) :
          a < b => video_paths[a] < video_paths[b]
    /\ (mode = "visual" /\ bres.kind = "return") =>
          /\ bres.image_paths = image_paths
          /\ {image_paths[a].prompt : a \in 1..Len(image_paths)}
                = {p \in 1..Len(tasks) : tasks[p].outcome = "saved"}
    /\ (mode = "batch" /\ bres.kind = "return") =>
          /\ bres.video_paths = video_paths
          /\ {video_paths[a] : a \in 1..Len(video_paths)}
                = {p \in 1..Len(tasks) : tasks[p].outcome = "saved"}

\* C15 witness: of three images the second failed; the first and the third
\* were returned.
C15_Witness ==
    /\ mode = "visual"
    /\ bres.kind = "return"
    /\ num_scenes = 3
    /\ tasks[2].outcome = "generate_error"
    /\ Len(bres.image_paths) = 2
    /\ bres.image_paths[1].prompt = 1
    /\ bres.image_paths[2].prompt = 3

\* The events of the stream that end it.
TerminalEvents == {k \in 1..Len(events) : events[k].event \in {"complete", "error"}}

\* The stage of phase k of the stream has been called and its agent returned.
StageReturned(k) ==
    /\ Len(calls) >= k
    /\ ~(Len(calls) = k /\ Raised(exc) = StageOrder[k])

\* C16: the stream's events come in one order: one start event first; then,
\* stage by stage, a 'processing' event followed, once the stage's agent has
\* returned, by the 'completed' event of the same phase (a stage whose agent
\* raised is followed by the error event instead); then exactly one of
\* complete and error, which is the last event of a stream that has ended.
C16_StreamEventOrder ==
    mode = "stream" =>
        /\ events # <<>> => events[1].event = "start"
        /\ \A k \in 2..Len(events) : events[k].event # "start"
        /\ \A k \in TerminalEvents : k = Len(events)
        /\ \A k \in 1..Len(events) :
              (events[k].event = "phase" /\ events[k].status = "processing"
                  /\ k < Len(events)) =>
                 IF StageReturned(events[k].phase)
                 THEN /\ events[k + 1].event = "phase"
                      /\ events[k + 1].phase = events[k].phase
                      /\ events[k + 1].status = "completed"
                 ELSE events[k + 1].event = "error"
        /\ pc \in {"raised", "returned"} => TerminalEvents # {}

\* What generate_video makes of the outcomes of the stages, read at the end of
\* a run: the exception of the stage that raised is the one recorded (the run
\* called no stage after it), and a run whose four stages returned is
\* Completed with the sum of their costs.  A commit that raised is no stage's
\* outcome.
OutcomeOfStages ==
    \/ exc.kind = "commit"
    \/ /\ calls # <<>>
       /\ exc.kind = calls[Len(calls)]
       /\ video.status = "failed"
       /\ exc.text \in {video.error_message, WrapperPrefix(mode) \o video.error_message}
    \/ /\ exc.kind = "none"
       /\ calls = StageOrder
       /\ video.status = "completed"
       /\ total_cost = costs.script + costs.voice + costs.visual + costs.assembly

\* C17: yielding progress does not change what the stages' outcomes lead to:
\* a streaming run ends as generate_video ends for the same outcomes of the
\* stages (same status, same recorded error, same total cost).
C17_StreamSameOutcome ==
    (mode \in {"image", "stream"} /\ pc \in {"raised", "returned"}) => OutcomeOfStages

\* C18: when the consumer of the stream stops reading, nothing the run had
\* committed is rolled back, and the disconnect writes nothing of its own: the
\* committed row stays as it is, or becomes the row that the commit the
\* generator was inside (the first one, or the handler's) was writing; neither
\* the row nor the object is marked Failed by the disconnect (a Failed status
\* was assigned by the handler before it); and no event is yielded again.
C18_DisconnectLeavesCommittedState ==
    [][ret'.kind = "closed" =>
          /\ (db = <<>>) => db' \in {<<>>, <<NewVideo>>}
          /\ (db # <<>>) =>
                \/ db' = db
                \/ pc = "handler_commit" /\ db' = <<CommittedRow(db[1], video)>>
          /\ video'.status = "failed" => video.status = "failed"
          /\ (db' # <<>> /\ db'[1].status = "failed") => video.status = "failed"
          /\ events' = events
          /\ \A a, b \in 1..Len(events') : a # b => events'[a] # events'[b]]_vars

\* C18 witness: the consumer left after the 'processing' event of phase 1; the
\* committed row is still Processing.
C18_Witness ==
    /\ mode = "stream"
    /\ ret.kind = "closed"
    /\ pc = "closed"
    /\ Len(events) = 2
    /\ events[2].event = "phase"
    /\ db # <<>>
    /\ db[1].status = "processing"

\* C19: the cost attached to a submitted job depends on its duration class
\* only: class "15" costs one and a half times the base rate, class "10" the
\* base rate, and it is the amount calculate_cost gives for one video of that
\* duration.
C19_CostFixedByDurationClass ==
    (mode = "client" /\ result.status = "processing") =>
        /\ result.cost_usd = calculate_cost(duration, 1)
        /\ duration = "15" => 2 * result.cost_usd = 3 * CostPer10s
        /\ duration = "10" => result.cost_usd = CostPer10s

\* C19 witness: a job of class "15" has been submitted and carries its cost.
C19_Witness ==
    /\ mode = "client"
    /\ duration = "15"
    /\ result.status = "processing"
    /\ tpc = "wait"
    /\ 2 * result.cost_usd = 3 * CostPer10s

\* The provider states get_task_status knows.
KnownStates == {"success", "waiting", "queuing", "generating", "fail"}

\* C20: the status a query returns is fixed by the provider's state: success
\* gives success, waiting / queuing / generating give processing, fail gives
\* fail, and any other state (a record without a state is read as the state
\* 'unknown') gives the status 'unknown', never success or fail; an answer
\* without a data record gives processing.
C20_UnknownStateIsUnknown ==
    (~status.raised /\ status.status # "none") =>
        /\ status.state = "absent" => status.status = "processing"
        /\ status.state = "success" => status.status = "success"
        /\ status.state \in {"waiting", "queuing", "generating"} => status.status = "processing"
        /\ status.state = "fail" => status.status = "fail"
        /\ status.state \notin KnownStates \cup {"absent"} =>
              /\ status.status = "unknown"
              /\ status.video_url = "absent"
              /\ status.error_message = "absent"

\* C20 witness: the provider answered with a state the client does not know,
\* and the query returned the status 'unknown'.
C20_Witness ==
    /\ ~status.raised
    /\ status.state = "paused"
    /\ status.status = "unknown"
    /\ polls > 0

\* C21: whenever wait_for_completion has returned normally, the status it
\* returned is success and carries the video's URL.
C21_ReturnCarriesVideoUrl ==
    (wpc = "done" /\ wres.kind = "return") =>
        /\ status.status = "success"
        /\ "video_url" \in ResultKeys(status)

\* The scenes of the batch whose job has been submitted.
SubmittedScenes == {tasks[k].scene : k \in {x \in 1..Len(tasks) : tasks[x].submitted}}

\* C22: the jobs of a batch run concurrently: while the job of a scene is
\* awaited and not yet terminal, and scenes after it are still to be
\* submitted, the job of the next scene can be submitted (the batch does not
\* have to wait for the job in flight to end first).  The code has no
\* concurrency cap; with one job outstanding no cap of a concurrent batch is
\* reached.
C22_ScenesRunConcurrently ==
    ( /\ mode \in {"sora2", "batch"}
      /\ bpc = "wait"
      /\ wpc \in {"loop", "sleep"}
      /\ job.state = "pending"
      /\ i + 1 < Len(video_prompts) )
    => ENABLED SceneSubmit

\* C23: the run's total is written between stages only, by the service: never
\* while a batch is going on; at the end of the scene stage every scene of
\* the batch has its outcome, and the cost of the batch is added once.
C23_TotalWrittenBetweenStages ==
    [][total_cost' # total_cost =>
          /\ pc \in {"script", "voice", "scenes_wait", "assembly"}
          /\ bpc \in {"idle", "done"}
          /\ pc = "scenes_wait" =>
                /\ bpc = "done"
                /\ bres.kind = "return"
                /\ \A k \in 1..Len(tasks) : tasks[k].outcome # "waiting"
                /\ total_cost' = total_cost + bres.cost_usd
                /\ pc' = "scenes_commit"]_vars

\* C23 witness: the scene stage is over and the cost of its batch, one image
\* saved, is in the total next to the costs of the two stages before it.
C23_Witness ==
    /\ mode = "image"
    /\ pc = "scenes_commit"
    /\ costs.visual = ImageCost
    /\ total_cost = costs.script + costs.voice + costs.visual

\* C24: each scene's wait has a deadline of its own: a wait times out only
\* after its own full allowance, whatever time the scenes before it took; the
\* scene that timed out is reported as failed, it alone, and the scene stage
\* does not fail the run when the clip of another scene was delivered.
C24_IndependentDeadlines ==
    /\ (wpc = "done" /\ wres.kind = "timeout") =>
          /\ elapsed >= max_wait_seconds
          /\ polls * poll_interval = elapsed
          /\ bpc = "wait" => max_wait_seconds = BatchMaxWait
    /\ (mode = "sora2" /\ bres.kind = "return") =>
          /\ \A k \in 1..Len(tasks) :
                tasks[k].outcome = "timeout" =>
                   \E f \in 1..Len(bres.failed_scenes) :
                       bres.failed_scenes[f].scene_number = k
          /\ ( /\ \E k \in 1..Len(tasks) : tasks[k].outcome = "timeout"
               /\ \E k \in 1..Len(tasks) : ClipDelivered(tasks[k]) )
             => exc.kind \notin {"scenes", "no_videos"}

\* C25: an error of one scene (its submission, wait, download or save) is
\* caught and kept as data: once the scenes of a batch have been started, the
\* batch call ends by returning, never by raising.
C25_SceneErrorsStayInBatch ==
    (bpc = "done" /\ tasks # <<>>) => bres.kind = "return"

\* The fields of the run record other than the two the failure handler assigns.
OtherFields(v) ==
    [script |-> v.script, voiceover_url |-> v.voiceover_url, scene_images |-> v.scene_images,
     video_url |-> v.video_url, thumbnail_url |-> v.thumbnail_url, steps |-> v.steps,
     total_cost_usd |-> v.total_cost_usd]

\* The artifact columns of the run record: the columns a commit sends, other
\* than the two the failure handler assigns.
Columns(v) ==
    [script |-> v.script, voiceover_url |-> v.voiceover_url, scene_images |-> v.scene_images,
     video_url |-> v.video_url, thumbnail_url |-> v.thumbnail_url]

\* C26: when a stage fails, what the stages before it committed stays in the
\* run record: the failure handler and its commit change the status and the
\* error message and no other field, of the record and of the committed row,
\* and the artifact columns of the two agree.
C26_HandlerKeepsEarlierArtifacts ==
    [][(pc \in {"handler", "handler_commit"} /\ exc.kind \in Stages \cup {"no_videos"}) =>
          /\ Columns(video') = Columns(video)
          /\ (pc = "handler") => OtherFields(video') = OtherFields(video)
          /\ db # <<>>
          /\ db' # <<>>
          /\ OtherFields(db'[1]) = OtherFields(db[1])
          /\ Columns(db'[1]) = Columns(video')]_vars

\* C26 witness: the assembly stage failed; the committed row is Failed and
\* still holds the script, the narration and the images of the stages before.
C26_Witness ==
    /\ mode = "image"
    /\ pc = "raised"
    /\ exc.kind = "assembly"
    /\ db # <<>>
    /\ db[1].status = "failed"
    /\ db[1].script # ""
    /\ db[1].voiceover_url # "none"
    /\ db[1].scene_images # NoPaths

\* C27: a job goes from non-terminal to one terminal outcome and stays there:
\* the provider's job never leaves success or fail, the wait ends with the
\* poll that saw a terminal status (or with the timeout) and polls no more,
\* and the outcome recorded for a scene is never changed afterwards.
C27_TerminalOutcomeIsFinal ==
    [][/\ job.state \in {"success", "fail"} => job' \in {job, NoJob}
       /\ status'.status \in {"success", "fail"} => wpc' = "done"
       /\ wpc = "done" => (polls' = polls /\ status' = status) \/ (polls' = 0 /\ status' = NoStatus)
       /\ \A k \in 1..Len(tasks) :
             (mode \in {"sora2", "batch"} /\ tasks[k].outcome # "waiting") =>
                 /\ Len(tasks') >= k
                 /\ tasks'[k] = tasks[k]]_vars

\* C27 witness: the job of the first scene failed and its outcome is recorded;
\* the job of the second scene is being polled.
C27_Witness ==
    /\ mode = "sora2"
    /\ Len(tasks) = 2
    /\ tasks[1].outcome = "job_failed"
    /\ tasks[2].outcome = "waiting"
    /\ polls > 0
    /\ wpc = "sleep"

\* C28: the cost a job got at its submission is never revised: only a
\* submission writes it, so polling, sleeping and downloading leave it as it
\* was; it is the cost kept for the scene, and what a scene adds to the total
\* of the batch is that amount.
C28_SubmissionCostNeverRevised ==
    [][/\ result' # result => (bpc = "loop" \/ tpc = "submit")
       /\ (bpc' = "wait" \/ tpc' = "wait") =>
             result'.cost_usd = calculate_cost(
                 IF bpc' = "wait" THEN ClipDuration(duration', script_segments', i') ELSE duration', 1)
       /\ bpc' = "wait" => tasks'[Len(tasks')].cost = result'.cost_usd
       /\ (mode \in {"sora2", "batch"} /\ batch_cost' # batch_cost) =>
             batch_cost' \in {0, batch_cost + result.cost_usd}]_vars

\* C28 witness: the wait of a submitted job is over after several polls, and
\* the job still carries the cost of its submission.
C28_Witness ==
    /\ mode = "sora2"
    /\ bpc = "wait"
    /\ wpc = "done"
    /\ polls > 1
    /\ wres.kind = "return"
    /\ result.cost_usd = SubmitCost(duration)

\* C29: nothing is retried: in one run no stage is called twice, no scene's
\* job is submitted twice, a status query that raised ends the wait, and a
\* scene that failed has one entry in the list of failures and no second try.
C29_NoRetry ==
    /\ \A a, b \in 1..Len(calls) : a # b => calls[a] # calls[b]
    /\ \A a, b \in 1..Len(tasks) : a # b => tasks[a].scene # tasks[b].scene
    /\ status.raised => (wpc = "done" /\ wres.kind = "poll_error" /\ polls = 1 + elapsed \div poll_interval)
    /\ mode \in {"sora2", "batch"} =>
          /\ \A a, b \in 1..Len(failed_scenes) :
                a # b => failed_scenes[a].scene_number # failed_scenes[b].scene_number
          /\ Len(tasks) <= num_scenes

\* C29 witness: the run failed with both scenes failed, the first at its
\* submission, and each stage and each scene was tried once.
C29_Witness ==
    /\ mode = "sora2"
    /\ pc = "raised"
    /\ calls = <<"script", "voice", "scenes">>
    /\ Len(tasks) = 2
    /\ tasks[1].outcome = "submit_error"
    /\ tasks[2].outcome = "poll_error"
    /\ Len(failed_scenes) = 2

\* C30: the running total of a run never goes down: no step, be it a stage,
\* a batch of which some scenes failed, or the failure of the run, lowers it.
C30_TotalNeverDecreases ==
    [][/\ total_cost' >= total_cost
       /\ \A s \in DOMAIN costs : s \in DOMAIN costs' /\ costs'[s] >= costs[s]]_vars

\* C30 witness: the run failed in the assembly stage after a batch in which an
\* image failed; the total still holds the costs of the three stages before.
C30_Witness ==
    /\ mode = "image"
    /\ pc = "raised"
    /\ exc.kind = "assembly"
    /\ \E k \in 1..Len(tasks) : tasks[k].outcome = "generate_error"
    /\ costs.visual > 0
    /\ total_cost = costs.script + costs.voice + costs.visual

\* The least number of sleeps of pi seconds that reach mw seconds.
CeilDiv(mw, pi) == (mw + pi - 1) \div pi

\* C31: a wait issues at most ceil(max_wait_seconds / poll_interval) status
\* queries, the first of them before any sleep (the queries issued are one
\* more than the sleeps finished, while one is awaited or has ended the
\* wait), none once the time slept has reached max_wait_seconds; with
\* max_wait_seconds <= 0 it raises the timeout error without any query.
C31_PollCountBounded ==
    [][(wpc' # "idle") =>
          /\ polls' <= CeilDiv(max_wait_seconds', poll_interval')
          /\ polls' * poll_interval' \in {elapsed', elapsed' + poll_interval'}
          /\ (wpc' = "sleep" \/ (wpc' = "done" /\ wres'.kind # "timeout")) =>
                polls' * poll_interval' = elapsed' + poll_interval'
          /\ polls' # polls => (polls' = polls + 1 /\ elapsed < max_wait_seconds) \/ polls' = 0
          /\ (max_wait_seconds' <= 0 /\ wpc' = "done") => (polls' = 0 /\ wres'.kind = "timeout")]_vars

\* C31 witness: a wait of 3 seconds polled every 2 seconds timed out after
\* its two queries.
C31_Witness ==
    /\ mode = "client"
    /\ max_wait_seconds = 3
    /\ poll_interval = 2
    /\ wpc = "done"
    /\ wres.kind = "timeout"
    /\ polls = CeilDiv(max_wait_seconds, poll_interval)
    /\ polls = 2

\* C32: with a poll_interval above 0 every wait ends, whatever the provider
\* answers; the time slept advances by poll_interval only, so with a
\* poll_interval of 0 it stays 0 and (max_wait_seconds being above 0) the
\* wait never times out: it ends only when a query reports a terminal status
\* or raises, and goes on for ever on a job that never becomes terminal.
C32_WaitTerminatesIffIntervalPositive ==
    /\ []((wpc # "idle" /\ poll_interval = 0) =>
             /\ elapsed = 0
             /\ max_wait_seconds > 0 => wres.kind # "timeout"
             /\ (wpc = "done" /\ max_wait_seconds > 0) =>
                   (status.raised \/ status.status \in {"success", "fail"}))
    /\ [][elapsed' # elapsed => elapsed' \in {0, elapsed + poll_interval}]_vars
    /\ (wpc = "loop" /\ poll_interval > 0) ~> (wpc = "done")

\* C32 witness: with a poll_interval of 0 the job has been queried more often
\* than max_wait_seconds counts seconds, and no time has passed for the wait.
C32_Witness ==
    /\ mode = "client"
    /\ poll_interval = 0
    /\ max_wait_seconds > 0
    /\ polls > max_wait_seconds
    /\ elapsed = 0
    /\ wpc = "loop"
    /\ job.state = "pending"

\* C33: the wait takes the statuses 'processing' and 'unknown' alike for "not
\* over yet": the query that reports either is followed by a sleep, and a wait
\* whose last query reported one of them has ended as a timeout, at the
\* deadline, never as a success or as a failure of the provider.
C33_UnknownIsNonTerminal ==
    [][/\ (polls' = polls + 1 /\ ~status'.raised /\ status'.status \in {"processing", "unknown"}) =>
             (wpc' = "sleep" /\ wres' = wres)
       /\ (wpc' = "done" /\ ~status'.raised /\ status'.status \in {"processing", "unknown"}) =>
             /\ wres'.kind = "timeout"
             /\ elapsed' >= max_wait_seconds']_vars

\* C33 witness: the provider answered with a state the client does not know
\* until the deadline, and the wait ended as a timeout.
C33_Witness ==
    /\ mode = "client"
    /\ wpc = "done"
    /\ wres.kind = "timeout"
    /\ status.status = "unknown"
    /\ status.state = "paused"
    /\ polls > 1
    /\ job.state = "pending"

\* C34: a status query that raises ends the wait at once with that error: no
\* sleep and no further query follow it and the wait is not reported as a
\* timeout; in a batch the error is the failure of that scene, which gets its
\* entry in the list of failures, and the scenes after it are still tried.
C34_PollErrorEndsWait ==
    /\ status.raised =>
          /\ wpc = "done"
          /\ wres.kind = "poll_error"
          /\ elapsed < max_wait_seconds
    /\ wres.kind = "poll_error" => status.raised
    /\ \A k \in 1..Len(tasks) :
          (mode = "sora2" /\ tasks[k].outcome = "poll_error") =>
              /\ \E f \in 1..Len(failed_scenes) :
                    /\ failed_scenes[f].scene_number = k
                    /\ failed_scenes[f].error = "poll_error"
              /\ bpc = "done" => (bres.kind = "return" /\ Len(tasks) = num_scenes)

\* C34 witness: the status query of the first scene raised; the second scene
\* was tried after it, its job succeeded, and the batch returned.
C34_Witness ==
    /\ mode = "sora2"
    /\ bres.kind = "return"
    /\ Len(tasks) = 2
    /\ tasks[1].outcome = "poll_error"
    /\ tasks[2].outcome = "attribute_error"
    /\ bres.num_failed = 2

\* The scene numbers of the entries of a list of failures.
FailedNumbers(fs) == {fs[f].scene_number : f \in 1..Len(fs)}

\* C35: in what generate_scene_videos returns every one of the N scenes is
\* there once, as a clip or as a failure: the clips and the failures together
\* are the scenes 1..N with none in both and none twice, and num_videos and
\* num_failed are the lengths of the two lists and add up to N.
C35_EverySceneAccountedFor ==
    (mode \in {"batch", "sora2"} /\ bres.kind = "return") =>
        /\ bres.num_videos + bres.num_failed = num_scenes
        /\ bres.num_videos = Len(bres.video_paths)
        /\ bres.num_failed = Len(bres.failed_scenes)
        /\ {bres.video_paths[k] : k \in 1..Len(bres.video_paths)}
              \cup FailedNumbers(bres.failed_scenes) = 1..num_scenes
        /\ Cardinality(FailedNumbers(bres.failed_scenes)) = Len(bres.failed_scenes)
        /\ Cardinality({bres.video_paths[k] : k \in 1..Len(bres.video_paths)})
              = Len(bres.video_paths)

\* C35 witness: a batch of two scenes called with one script segment has
\* returned, one scene failed at its submission and the other after its wait.
C35_Witness ==
    /\ mode = "batch"
    /\ bres.kind = "return"
    /\ num_scenes = 2
    /\ Len(script_segments) = 1
    /\ tasks[1].outcome = "submit_error"
    /\ tasks[2].outcome = "job_failed"
    /\ bres.num_videos + bres.num_failed = 2


\* The description step of the run's batch call is over and did not itself
\* fail: candidates is the list of prompts the agent then holds.
RunDescribed ==
    /\ mode = "sora2"
    /\ bpc \in {"loop", "wait", "done"} \/ (bpc = "idle" /\ bres # NoRes)
    /\ ~(bres.kind = "raise" /\ bres.text = "Scene description generation failed")

\* C36: when the agent holds no candidate prompt (k = 0) while N >= 1, the
\* batch call raises (IndexError of the padding) and returns no result;
\* no task was made and no job submitted; the run goes to its handler and
\* ends Failed: when the call is over, the record and its committed row say
\* Failed.
C36_EmptyCandidatesFailRun ==
    (RunDescribed /\ candidates = <<>>) =>
        /\ num_scenes >= 1
        /\ bres = [kind |-> "raise", text |-> "list index out of range"]
        /\ tasks = <<>>
        /\ SubmittedScenes = {}
        /\ job = NoJob
        /\ pc \in {"scenes_wait", "handler", "handler_commit", "raised"}
        /\ (pc = "raised") =>
              /\ video.status = "failed"
              /\ db[1].status = "failed"

RecordConsistent(v) ==
    /\ v.status = "completed" =>
          /\ v.script # ""
          /\ v.voiceover_url # "none"
          /\ v.scene_images # NoPaths
          /\ v.scene_images # <<>>
          /\ v.video_url # "none"
    /\ v.status \in {"processing", "failed"} => v.video_url = "none"

\* C37: in every state of a run, the run's record (the object the
\* orchestrator holds and the committed row) with status Completed has the
\* script, the narration audio, a non-empty list of scene artifacts and the
\* final video reference, and with status Processing or Failed has no final
\* video reference.
C37_StatusMatchesArtifacts ==
    mode \in Pipelines =>
        /\ RecordConsistent(video)
        /\ \A k \in 1..Len(db) : RecordConsistent(db[k])


\* The run has started: its record has been created and committed.
RunStarted == mode \in Pipelines /\ db # <<>>

\* The status of the run's record is Completed or Failed.
RunTerminal == video.status \in {"completed", "failed"}

\* C38 (as stated): every started run eventually has status Completed or
\* Failed, in each of the three orchestrators, when every stage call and every
\* commit returns or raises.
C38_EveryRunTerminates == RunStarted ~> RunTerminal

====
